---------------------------- MODULE Spec2Model ----------------------------
(***************************************************************************)
(* A model of the garment revenue prediction engine                        *)
(* (src/src/lib/enhanced-prediction-engine.ts): one call of                *)
(* EnhancedPredictionEngine.generateEnhancedPrediction, stage by stage,    *)
(* with the external store, the wall clock and the exceptions a stage can  *)
(* raise as the environment.                                               *)
(*                                                                         *)
(* Numbers.  JavaScript numbers are modelled as exact decimals/rationals   *)
(* (no binary floating-point error):                                       *)
(*   money (LKR), percentages given by the caller ........ integers        *)
(*   laborCostIndex, exchange rates, dyeCostIndex ......... hundredths      *)
(*   gdp/inflation/export/unemployment rates .............. tenths          *)
(*   a value produced by toFixed(2) ....................... hundredths      *)
(*   a value produced by toFixed(4) ....................... ten-thousandths *)
(*   a value produced by toFixed(1) (a display string) .... tenths          *)
(* Products that do not fit a machine integer are computed on Big          *)
(* naturals: sequences of decimal digits, least significant first, <<>>    *)
(* being zero.                                                             *)
(***************************************************************************)
EXTENDS Integers, Sequences, FiniteSets, TLC

(***************************************************************************)
(* Exact arithmetic on Big naturals                                        *)
(***************************************************************************)
RECURSIVE ToBig(_)
ToBig(n) ==
  IF n = 0 THEN <<>> ELSE <<n % 10>> \o ToBig(n \div 10)

RECURSIVE BigNorm(_)
BigNorm(a) ==
  IF Len(a) = 0 THEN a
  ELSE IF a[Len(a)] = 0 THEN BigNorm(SubSeq(a, 1, Len(a) - 1)) ELSE a

RECURSIVE BigToIntFrom(_, _)
BigToIntFrom(a, i) ==
  IF i > Len(a) THEN 0 ELSE a[i] + 10 * BigToIntFrom(a, i + 1)

BigToInt(a) ==
  BigToIntFrom(a, 1)

RECURSIVE BigAddFrom(_, _, _, _)
BigAddFrom(a, b, i, c) ==
  IF i > Len(a) /\ i > Len(b)
    THEN (IF c = 0 THEN <<>> ELSE <<c>>)
    ELSE LET s == (IF i <= Len(a) THEN a[i] ELSE 0)
                  + (IF i <= Len(b) THEN b[i] ELSE 0) + c
         IN <<s % 10>> \o BigAddFrom(a, b, i + 1, s \div 10)

BigAdd(a, b) ==
  BigAddFrom(a, b, 1, 0)

\* a - b for a >= b
RECURSIVE BigSubFrom(_, _, _, _)
BigSubFrom(a, b, i, borrow) ==
  IF i > Len(a) THEN <<>>
  ELSE LET s == a[i] - (IF i <= Len(b) THEN b[i] ELSE 0) - borrow
       IN <<(s + 10) % 10>> \o BigSubFrom(a, b, i + 1, IF s < 0 THEN 1 ELSE 0)

BigSub(a, b) ==
  BigNorm(BigSubFrom(a, b, 1, 0))

\* a * k for a machine integer 0 <= k <= 200,000,000
RECURSIVE BigMulFrom(_, _, _, _)
BigMulFrom(a, k, i, c) ==
  IF i > Len(a) THEN ToBig(c)
  ELSE LET p == a[i] * k + c
       IN <<p % 10>> \o BigMulFrom(a, k, i + 1, p \div 10)

BigMulSmall(a, k) ==
  IF k = 0 THEN <<>> ELSE BigMulFrom(a, k, 1, 0)

\* -1, 0, 1 as a < b, a = b, a > b (both normalised)
RECURSIVE BigCmpFrom(_, _, _)
BigCmpFrom(a, b, i) ==
  IF i = 0 THEN 0
  ELSE IF a[i] < b[i] THEN -1
  ELSE IF a[i] > b[i] THEN 1
  ELSE BigCmpFrom(a, b, i - 1)

BigCmp(a, b) ==
  IF Len(a) < Len(b) THEN -1
  ELSE IF Len(a) > Len(b) THEN 1
  ELSE BigCmpFrom(a, b, Len(a))

\* long division of a by a machine integer 0 < d <= 200,000,000
RECURSIVE BigDivFrom(_, _, _, _, _)
BigDivFrom(a, d, i, r, q) ==
  IF i = 0 THEN [q |-> BigNorm(q), r |-> r]
  ELSE BigDivFrom(a, d, i - 1, (r * 10 + a[i]) % d,
                  <<(r * 10 + a[i]) \div d>> \o q)

BigDivSmall(a, d) ==
  BigDivFrom(a, d, Len(a), 0, <<>>)

\* a * 10^e and floor(a / 10^e)
BigShl(a, e) ==
  IF Len(a) = 0 THEN a ELSE [i \in 1..e |-> 0] \o a

BigShr(a, e) ==
  IF Len(a) <= e THEN <<>> ELSE SubSeq(a, e + 1, Len(a))

\* the integer nearest to num / (d * 10^e), a tie going up: Math.round, and
\* toFixed on a non-negative value
BigRoundDiv(num, d, e) ==
  BigToInt(BigDivSmall(BigShr(BigAdd(BigMulSmall(num, 2), BigShl(ToBig(d), e)), e),
                       2 * d).q)

\* round(a * m / d) for machine integers a, m >= 0, d > 0
MulDivRound(a, m, d) ==
  BigRoundDiv(BigMulSmall(ToBig(a), m), d, 0)

\* a * b
RECURSIVE BigMulAcc(_, _, _, _)
BigMulAcc(a, b, i, acc) ==
  IF i > Len(b) THEN acc
  ELSE BigMulAcc(a, b, i + 1, BigAdd(acc, BigShl(BigMulSmall(a, b[i]), i - 1)))

BigMul(a, b) ==
  BigMulAcc(a, b, 1, <<>>)

Abs(x) == IF x < 0 THEN -x ELSE x
Min(a, b) == IF a < b THEN a ELSE b
Max(a, b) == IF a > b THEN a ELSE b

(***************************************************************************)
(* Non-negative rationals num / (den * 10^exp): the JavaScript numbers of  *)
(* the revenue projection, which the code multiplies by decimal weights    *)
(* and divides by an average.  With non-negative revenues the six-period   *)
(* growth is at least -100 %, so no intermediate value is negative.        *)
(***************************************************************************)
Rat(n, d, e) == [num |-> n, den |-> d, exp |-> e]

RatOfInt(n) == Rat(ToBig(n), 1, 0)

\* the numbers that are no rationals: NaN as 0/0, Infinity as 1/0
RatNaN == Rat(<<>>, 0, 0)
RatInfinity == Rat(<<1>>, 0, 0)

\* r * k / 10^e
RatScale(r, k, e) == Rat(BigMulSmall(r.num, k), r.den, r.exp + e)

RatMul(a, b) == Rat(BigMul(a.num, b.num), a.den * b.den, a.exp + b.exp)

RatAdd(a, b) ==
  LET e == Max(a.exp, b.exp)
  IN Rat(BigAdd(BigMulSmall(BigShl(a.num, e - a.exp), b.den),
                BigMulSmall(BigShl(b.num, e - b.exp), a.den)),
         a.den * b.den, e)

\* is the value a whole number
RatIsInteger(r) ==
  /\ \A i \in 1..Min(r.exp, Len(r.num)) : r.num[i] = 0
  /\ BigDivSmall(BigShr(r.num, r.exp), r.den).r = 0

\* the value of a whole-number rational as a machine integer
RatInt(r) == BigToInt(BigDivSmall(BigShr(r.num, r.exp), r.den).q)

(***************************************************************************)
(* JavaScript values that are not numbers.  Every number that can be       *)
(* missing or NaN in the code is non-negative, so negative codes are free. *)
(***************************************************************************)
\* an optional field left out by the caller, a property a stored record lacks
Undefined == -1
\* a stored value that is not a number (a string such as "n/a")
NotNumeric == -2
\* the result of arithmetic on such a value
NaN == -3
\* a revenue too large for a double (JSON.parse reads 1e400 as Infinity)
Infinity == -4

\* JavaScript truthiness: `x ? a : b`, `x || d`, `!x`
Truthy(x) == x # Undefined /\ x # NaN /\ x # 0

\* x || d
Or(x, d) == IF Truthy(x) THEN x ELSE d

\* relational operators: every comparison with NaN or undefined is false
Gt(x, c) == x >= 0 /\ x > c
Lt(x, c) == x >= 0 /\ x < c

(***************************************************************************)
(* The caller's input (EnhancedInputData).  historicalRevenue is a         *)
(* sequence of items; an item is {name, revenue} or, in an array that does *)
(* not respect the declared item type, null.                               *)
(***************************************************************************)
Item(r) == [revenue |-> r, isNull |-> FALSE]
NullItem == [revenue |-> 0, isNull |-> TRUE]

\* item?.revenue
OptRevenue(item) == IF item.isNull THEN Undefined ELSE item.revenue

HasNullItem(revenue) == \E i \in 1..Len(revenue) : revenue[i].isNull

RECURSIVE SumFrom(_, _)
SumFrom(revenue, i) ==
  IF i > Len(revenue) THEN 0 ELSE revenue[i].revenue + SumFrom(revenue, i + 1)

\* values.reduce((a, b) => a + b, 0)
SumRevenue(revenue) == SumFrom(revenue, 1)

RECURSIVE SumSquaresFrom(_, _)
SumSquaresFrom(revenue, i) ==
  IF i > Len(revenue) THEN <<>>
  ELSE BigAdd(BigMulSmall(ToBig(revenue[i].revenue), revenue[i].revenue),
              SumSquaresFrom(revenue, i + 1))

(***************************************************************************)
(* The wall clock: new Date() read as local year, month (1-12), day, hour. *)
(***************************************************************************)
Instant(y, m, d, h) == [year |-> y, month |-> m, day |-> d, hour |-> h]

\* a <= b for two instants
NotAfter(a, b) ==
  \/ a.year < b.year
  \/ a.year = b.year /\ a.month < b.month
  \/ a.year = b.year /\ a.month = b.month /\ a.day < b.day
  \/ a.year = b.year /\ a.month = b.month /\ a.day = b.day /\ a.hour <= b.hour

getSeasonalFactor(t) ==
  LET seasonalMap == <<90, 95, 110, 115, 110, 95, 90, 90, 100, 120, 130, 110>>
  IN Or(seasonalMap[t.month], 100)

isRamadanPeriod(t) ==
  LET ramadanStart2024 == Instant(t.year, 3, 10, 0)
      ramadanEnd2024 == Instant(t.year, 4, 9, 0)
      ramadanStart2025 == Instant(t.year, 2, 28, 0)
      ramadanEnd2025 == Instant(t.year, 3, 29, 0)
  IN \/ t.year = 2024 /\ NotAfter(ramadanStart2024, t) /\ NotAfter(t, ramadanEnd2024)
     \/ t.year = 2025 /\ NotAfter(ramadanStart2025, t) /\ NotAfter(t, ramadanEnd2025)

(***************************************************************************)
(* Stage 2, the feature helpers                                            *)
(***************************************************************************)
\* calculateGrowthRate with the reference point one position too late
\* (revenueData[length - periods] for revenueData[length - periods - 1])
calculateGrowthRateOffByOne(revenueData, periods) ==
  IF Len(revenueData) < periods + 1 THEN 0
  ELSE LET current == Or(OptRevenue(revenueData[Len(revenueData)]), 0)
           previous == OptRevenue(revenueData[Len(revenueData) - periods + 1])
       IN IF previous = Undefined \/ previous = 0 THEN 0
          ELSE IF current >= previous
            THEN MulDivRound(current - previous, 10000, previous)
            ELSE -MulDivRound(previous - current, 10000, previous)

\* hundredths of a percent; parseFloat(x.toFixed(2)) rounds half away from zero
calculateGrowthRate(revenueData, periods) ==
  IF Len(revenueData) < periods + 1 THEN 0
  ELSE LET current == Or(OptRevenue(revenueData[Len(revenueData)]), 0)
           previous == OptRevenue(revenueData[Len(revenueData) - periods])
       IN IF previous = Undefined \/ previous = 0 THEN 0
          ELSE IF current >= previous
            THEN MulDivRound(current - previous, 10000, previous)
            ELSE -MulDivRound(previous - current, 10000, previous)

\* whether that growth rate is a number at all: with a reference point of
\* Infinity the quotient (current - previous) / previous is NaN, with only the
\* last point Infinity it is Infinity (toFixed and parseFloat keep both)
calculateGrowthRateKind(revenueData, periods) ==
  IF Len(revenueData) < periods + 1 THEN "number"
  ELSE LET current == Or(OptRevenue(revenueData[Len(revenueData)]), 0)
           previous == OptRevenue(revenueData[Len(revenueData) - periods])
       IN IF previous = Undefined \/ previous = 0 THEN "number"
          ELSE IF previous = Infinity THEN "NaN"
          ELSE IF current = Infinity THEN "Infinity"
          ELSE "number"

\* the largest h with (2h - 1)^2 * s2 <= d4, i.e. round(sqrt(d4 / s2) / 2)
RECURSIVE RoundSqrtRatio(_, _, _, _)
RoundSqrtRatio(s2, d4, h, bit) ==
  IF bit = 0 THEN h
  ELSE IF BigCmp(BigMulSmall(BigMulSmall(s2, 2 * (h + bit) - 1), 2 * (h + bit) - 1),
                 d4) <= 0
         THEN RoundSqrtRatio(s2, d4, h + bit, bit \div 2)
         ELSE RoundSqrtRatio(s2, d4, h, bit \div 2)

\* hundredths of a percent.  With S the sum, Q the sum of squares and n the
\* length, sqrt(variance) / mean = sqrt(n*Q - S*S) / S.
calculateVolatility(revenueData) ==
  IF Len(revenueData) < 3 THEN 0
  ELSE LET n == Len(revenueData)
           S == SumRevenue(revenueData)
       IN IF S = 0 THEN 0
          ELSE RoundSqrtRatio(BigMulSmall(ToBig(S), S),
                 BigMulSmall(BigShl(BigSub(BigMulSmall(SumSquaresFrom(revenueData, 1), n),
                                           BigMulSmall(ToBig(S), S)), 8), 4),
                 0, 32768)

\* hundredths
calculateSeasonality(revenueData, t) ==
  IF Len(revenueData) < 12 THEN 100 ELSE getSeasonalFactor(t)

\* calculateOrderPipelineStrength with the neutral 100 as the value returned
\* when there is nothing to compute the strength from
calculateOrderPipelineStrengthNeutralDefault(inputData) ==
  IF ~Truthy(inputData.confirmedOrdersValue) \/ inputData.confirmedOrdersValue <= 0
    THEN [num |-> 100, den |-> 1]
  ELSE IF Len(inputData.historicalRevenue) = 0 THEN [num |-> 100, den |-> 1]
  ELSE LET n == Len(inputData.historicalRevenue)
           S == SumRevenue(inputData.historicalRevenue)
       IN IF S <= 0 THEN [num |-> 100, den |-> 1]
          ELSE IF inputData.confirmedOrdersValue * n >= 2 * S
            THEN [num |-> 200, den |-> 1]
            ELSE [num |-> inputData.confirmedOrdersValue * n * 100, den |-> S]

\* a percentage as the fraction num / den
calculateOrderPipelineStrength(inputData) ==
  IF ~Truthy(inputData.confirmedOrdersValue) \/ inputData.confirmedOrdersValue <= 0
    THEN [num |-> 50, den |-> 1]
  ELSE IF Len(inputData.historicalRevenue) = 0 THEN [num |-> 50, den |-> 1]
  ELSE LET n == Len(inputData.historicalRevenue)
           S == SumRevenue(inputData.historicalRevenue)
       IN IF S <= 0 THEN [num |-> 50, den |-> 1]
          ELSE IF inputData.confirmedOrdersValue * n >= 2 * S
            THEN [num |-> 200, den |-> 1]
            ELSE [num |-> inputData.confirmedOrdersValue * n * 100, den |-> S]

calculateBuyerRisk(inputData) ==
  IF ~Truthy(inputData.top3BuyersPercentage) THEN 50
  ELSE LET percentage == inputData.top3BuyersPercentage
       IN IF percentage > 80 THEN 90
          ELSE IF percentage > 60 THEN 70
          ELSE IF percentage > 40 THEN 50
          ELSE 30

\* calculateOperationalEfficiency with a utilisation that does depend on the
\* capacity: the average revenue against a revenue of 100 per unit of capacity
calculateOperationalEfficiencyByCapacity(inputData) ==
  LET quality == IF Truthy(inputData.firstPassQualityRate)
                   THEN (inputData.firstPassQualityRate - 85) * 50 ELSE 0
      delivery == IF Truthy(inputData.onTimeDeliveryRate)
                    THEN (inputData.onTimeDeliveryRate - 90) * 30 ELSE 0
      n == Len(inputData.historicalRevenue)
      utilizationRate ==
        IF inputData.productionCapacity > 0 /\ n > 0
             /\ SumRevenue(inputData.historicalRevenue) > 0
          THEN Min(SumRevenue(inputData.historicalRevenue)
                     \div (n * inputData.productionCapacity), 100)
          ELSE 70
      efficiency == 7000 + quality + delivery + (utilizationRate - 70) * 20
  IN Max(0, Min(10000, efficiency))

\* hundredths.  averageHistoricalRevenue is 1 for an empty history, and
\* maxPossibleRevenueAtCapacity = capacity * (average / capacity * 0.5) is half
\* the average, so the ratio taken for the utilisation is 2 (200 %).
calculateOperationalEfficiency(inputData) ==
  LET quality == IF Truthy(inputData.firstPassQualityRate)
                   THEN (inputData.firstPassQualityRate - 85) * 50 ELSE 0
      delivery == IF Truthy(inputData.onTimeDeliveryRate)
                    THEN (inputData.onTimeDeliveryRate - 90) * 30 ELSE 0
      averagePositive == IF Len(inputData.historicalRevenue) > 0
                           THEN SumRevenue(inputData.historicalRevenue) > 0 ELSE TRUE
      utilizationRate == IF inputData.productionCapacity > 0 /\ averagePositive
                           THEN Min(200, 100) ELSE 70
      efficiency == 7000 + quality + delivery + (utilizationRate - 70) * 20
  IN Max(0, Min(10000, efficiency))

\* ten-thousandths, against the baseline 320.00
calculateExchangeRateImpact(currentRate) ==
  LET effectiveRate == Or(currentRate, 32000)
      baselineRate == 32000
  IN IF effectiveRate < 0 THEN NaN
     ELSE MulDivRound(Abs(effectiveRate - baselineRate), 10000, baselineRate)

\* hundredths
calculateMarketPosition(inputData) ==
  LET retentionRate == Or(inputData.buyerRetentionRate, 70)
      qualityRate == Or(inputData.firstPassQualityRate, 85)
      deliveryRate == Or(inputData.onTimeDeliveryRate, 90)
  IN retentionRate * 40 + qualityRate * 30 + deliveryRate * 30

\* hundredths
calculateRawMaterialImpact(rawMaterialPrices) ==
  LET baselineCottonLKR == 350
      currentCottonLKR == IF rawMaterialPrices.defined
                            THEN Or(rawMaterialPrices.cottonPriceLKR, baselineCottonLKR)
                            ELSE baselineCottonLKR
  IN IF currentCottonLKR < 0 THEN NaN
     ELSE MulDivRound(currentCottonLKR, 100, baselineCottonLKR)

\* hundredths; the indicators are given in tenths
assessEconomicConditions(economicIndicators) ==
  IF ~economicIndicators.defined THEN 6000
  ELSE LET gdp == Or(economicIndicators.gdpGrowthRate, 0)
           inflation == Or(economicIndicators.inflationRate, 0)
           export == Or(economicIndicators.exportGrowthRate, 0)
       IN IF gdp < 0 \/ inflation < 0 \/ export < 0 THEN NaN
          ELSE Max(0, Min(1000, 500 + gdp * 5 - inflation * 2 + export * 3)) * 10

\* hundredths
calculateOverallRisk(inputData, externalData) ==
  LET buyerRisk40 == IF Truthy(inputData.top3BuyersPercentage)
                       THEN inputData.top3BuyersPercentage * 40 ELSE 2000
      qualityRisk30 == IF Truthy(inputData.firstPassQualityRate)
                         THEN (100 - inputData.firstPassQualityRate) * 30 ELSE 450
  IN IF ~Truthy(externalData.exchangeRate)
       THEN Max(0, Min(10000, buyerRisk40 + qualityRisk30 + 150))
     ELSE IF externalData.exchangeRate < 0 THEN NaN
     ELSE Max(0, Min(10000,
            MulDivRound(32 * (buyerRisk40 + qualityRisk30)
                          + 3 * Abs(externalData.exchangeRate - 32000), 1, 32)))

assessDataQuality(inputData) ==
  LET bonus(cond, points) == IF cond THEN points ELSE 0
      present(x) == Truthy(x) /\ x > 0
  IN Min(100, 50
       + bonus(Len(inputData.historicalRevenue) >= 12, 10)
       + bonus(Len(inputData.historicalRevenue) >= 24, 5)
       + bonus(present(inputData.confirmedOrdersValue), 10)
       + bonus(present(inputData.firstPassQualityRate), 5)
       + bonus(present(inputData.onTimeDeliveryRate), 5)
       + bonus(present(inputData.buyerRetentionRate), 5)
       + bonus(present(inputData.currentExchangeRate), 5))

\* property accesses that raise a TypeError on a null item: latestRevenueRecord
\* .revenue (line 97) and the map / reduce callbacks r.revenue of
\* calculateVolatility, calculateOrderPipelineStrength and
\* calculateOperationalEfficiency
calculateEnhancedFeaturesThrows(inputData) ==
  LET revenue == inputData.historicalRevenue
  IN \/ Len(revenue) > 0 /\ revenue[Len(revenue)].isNull
     \/ Len(revenue) >= 3 /\ HasNullItem(revenue)
     \/ /\ Truthy(inputData.confirmedOrdersValue)
        /\ inputData.confirmedOrdersValue > 0
        /\ HasNullItem(revenue)
     \/ HasNullItem(revenue)

\* t is the instant calculateSeasonality reads the clock at
calculateEnhancedFeatures(inputData, externalData, t) ==
  LET revenue == inputData.historicalRevenue
      latestRevenueRecord == IF Len(revenue) > 0 THEN revenue[Len(revenue)] ELSE Item(0)
      latestRevenue == latestRevenueRecord.revenue
  IN [ baseRevenue |-> latestRevenue,
       revenueGrowth |-> calculateGrowthRate(revenue, 6),
       revenueVolatility |-> calculateVolatility(revenue),
       seasonality |-> calculateSeasonality(revenue, t),
       orderPipelineStrength |-> calculateOrderPipelineStrength(inputData),
       buyerConcentrationRisk |-> calculateBuyerRisk(inputData),
       operationalEfficiency |-> calculateOperationalEfficiency(inputData),
       marketPosition |-> calculateMarketPosition(inputData),
       exchangeRateImpact |->
         calculateExchangeRateImpact(Or(inputData.currentExchangeRate,
                                        externalData.exchangeRate)),
       rawMaterialCostImpact |-> calculateRawMaterialImpact(externalData.rawMaterialPrices),
       economicConditions |-> assessEconomicConditions(externalData.economicIndicators),
       overallRiskScore |-> calculateOverallRisk(inputData, externalData),
       dataQualityScore |-> assessDataQuality(inputData),
       companyLifecycleStage |-> inputData.companyLifecycleStage,
       naturalDisasterLikelihood |-> inputData.naturalDisasterLikelihood,
       marketingSpend |-> inputData.marketingSpend,
       laborCostIndex |-> inputData.laborCostIndex,
       productionCapacity |-> inputData.productionCapacity ]

(***************************************************************************)
(* Stage 3, the ensemble                                                   *)
(***************************************************************************)
\* baseRevenue * (1 + revenueGrowth / 100)
trendBasedPrediction(features) ==
  Rat(BigMul(ToBig(features.baseRevenue), ToBig(10000 + features.revenueGrowth)), 1, 4)

\* baseRevenue * orderPipelineStrength / 100
pipelineBasedPrediction(features) ==
  Rat(BigMul(ToBig(features.baseRevenue), ToBig(features.orderPipelineStrength.num)),
      features.orderPipelineStrength.den, 2)

\* a seasonal projection from the seasonality feature, which is 1.0 for a
\* history of fewer than 12 points
seasonalAdjustedPredictionFromHistory(features, t) ==
  Rat(BigMul(ToBig(features.baseRevenue), ToBig(features.seasonality)), 1, 2)

\* baseRevenue * getSeasonalFactor()
seasonalAdjustedPrediction(features, t) ==
  Rat(BigMul(ToBig(features.baseRevenue), ToBig(getSeasonalFactor(t))), 1, 2)

\* calculatePredictionConfidence without the clamp Math.max(60, Math.min(95, .))
calculatePredictionConfidenceUnclamped(features) ==
  LET confidence == 85000
                    + (features.dataQualityScore - 70) * 300
                    - Min(features.revenueVolatility * 5, 15000)
                    - Or(features.overallRiskScore, 0)
  IN (2 * confidence + 1000) \div 2000

\* Math.round of a sum with terms in thousandths
calculatePredictionConfidence(features) ==
  LET confidence == 85000
                    + (features.dataQualityScore - 70) * 300
                    - Min(features.revenueVolatility * 5, 15000)
                    - Or(features.overallRiskScore, 0)
  IN Max(60, Min(95, (2 * confidence + 1000) \div 2000))

\* runEnsemblePrediction with a true third of the quarter as the month
runEnsemblePredictionTrueThird(features, t) ==
  LET trendPrediction == trendBasedPrediction(features)
      pipelinePrediction == pipelineBasedPrediction(features)
      seasonalPrediction == seasonalAdjustedPrediction(features, t)
      ensemblePrediction == RatAdd(RatAdd(RatScale(trendPrediction, 40, 2),
                                          RatScale(pipelinePrediction, 35, 2)),
                                   RatScale(seasonalPrediction, 25, 2))
  IN [ nextMonth |-> Rat(ensemblePrediction.num, ensemblePrediction.den * 3,
                         ensemblePrediction.exp),
       nextQuarter |-> ensemblePrediction,
       nextSixMonths |-> RatScale(ensemblePrediction, 2, 0),
       nextYear |-> RatScale(ensemblePrediction, 4, 0),
       confidence |-> calculatePredictionConfidence(features) ]

\* t is the instant getSeasonalFactor reads the clock at
runEnsemblePrediction(features, t) ==
  LET trendPrediction == trendBasedPrediction(features)
      pipelinePrediction == pipelineBasedPrediction(features)
      seasonalPrediction == seasonalAdjustedPrediction(features, t)
      ensemblePrediction == RatAdd(RatAdd(RatScale(trendPrediction, 40, 2),
                                          RatScale(pipelinePrediction, 35, 2)),
                                   RatScale(seasonalPrediction, 25, 2))
  IN [ nextMonth |-> RatScale(ensemblePrediction, 33, 2),
       nextQuarter |-> ensemblePrediction,
       nextSixMonths |-> RatScale(ensemblePrediction, 2, 0),
       nextYear |-> RatScale(ensemblePrediction, 4, 0),
       confidence |-> calculatePredictionConfidence(features) ]

(***************************************************************************)
(* Stage 4, the industry adjustments                                       *)
(***************************************************************************)
\* Math.floor in place of Math.round
MathFloor(x) == RatOfInt(BigToInt(BigDivSmall(BigShr(x.num, x.exp), x.den).q))

\* the projection left unrounded
MathRoundSkipped(x) == x

\* Math.round(x)
MathRound(x) == RatOfInt(BigRoundDiv(x.num, x.den, x.exp))

\* Math.max(0, x): the values of this model are never negative
MathMax0(x) == x

\* parseFloat(x.toFixed(digits)) as an integer number of 10^-digits
ToFixed(x, digits) == BigRoundDiv(BigShl(x.num, digits), x.den, x.exp)

\* the marketing multiplier applied from 1,000,000 on, not above it
adjustmentFactorOfFromOneMillion(features, tMonth, tRamadan) ==
  LET times(f, cond, hundredths) == IF cond THEN RatScale(f, hundredths, 2) ELSE f
      currentMonth == tMonth.month
      a0 == RatOfInt(1)
      a1 == times(a0, currentMonth >= 6 /\ currentMonth <= 9, 95)
      a2 == times(a1, isRamadanPeriod(tRamadan), 92)
      a3 == times(a2, features.companyLifecycleStage = "startup", 110)
      a4 == times(a3, features.companyLifecycleStage = "decline", 90)
      a5 == IF features.naturalDisasterLikelihood = "high" THEN RatScale(a4, 85, 2)
            ELSE times(a4, features.naturalDisasterLikelihood = "medium", 95)
      a6 == times(a5, Gt(features.exchangeRateImpact, 1000), 97)
      a7 == IF features.operationalEfficiency > 9000 THEN RatScale(a6, 105, 2)
            ELSE times(a6, features.operationalEfficiency < 7500, 95)
      a8 == RatScale(a7, 103, 2)
      a9 == times(a8, features.marketingSpend >= 1000000, 102)
  IN times(a9, features.laborCostIndex > 110, 98)

\* tMonth is the instant of new Date().getMonth(), tRamadan the instant
\* isRamadanPeriod reads
adjustmentFactorOf(features, tMonth, tRamadan) ==
  LET times(f, cond, hundredths) == IF cond THEN RatScale(f, hundredths, 2) ELSE f
      currentMonth == tMonth.month
      a0 == RatOfInt(1)
      a1 == times(a0, currentMonth >= 6 /\ currentMonth <= 9, 95)
      a2 == times(a1, isRamadanPeriod(tRamadan), 92)
      a3 == times(a2, features.companyLifecycleStage = "startup", 110)
      a4 == times(a3, features.companyLifecycleStage = "decline", 90)
      a5 == IF features.naturalDisasterLikelihood = "high" THEN RatScale(a4, 85, 2)
            ELSE times(a4, features.naturalDisasterLikelihood = "medium", 95)
      a6 == times(a5, Gt(features.exchangeRateImpact, 1000), 97)
      a7 == IF features.operationalEfficiency > 9000 THEN RatScale(a6, 105, 2)
            ELSE times(a6, features.operationalEfficiency < 7500, 95)
      a8 == RatScale(a7, 103, 2)
      a9 == times(a8, features.marketingSpend > 1000000, 102)
  IN times(a9, features.laborCostIndex > 110, 98)

applyIndustryAdjustments(predictions, features, tMonth, tRamadan) ==
  LET adjustmentFactor == adjustmentFactorOf(features, tMonth, tRamadan)
  IN [ nextMonth |-> MathMax0(MathRound(RatMul(predictions.nextMonth, adjustmentFactor))),
       nextQuarter |-> MathMax0(MathRound(RatMul(predictions.nextQuarter, adjustmentFactor))),
       nextSixMonths |->
         MathMax0(MathRound(RatMul(predictions.nextSixMonths, adjustmentFactor))),
       nextYear |-> MathMax0(MathRound(RatMul(predictions.nextYear, adjustmentFactor))),
       confidence |-> predictions.confidence,
       adjustmentFactor |-> ToFixed(adjustmentFactor, 4) ]

(***************************************************************************)
(* Stage 5, insights and recommendations                                   *)
(***************************************************************************)
\* x.toFixed(1) of a value in hundredths, as tenths (NaN stays NaN)
ToFixed1(h) == IF h < 0 THEN NaN ELSE (h + 5) \div 10

\* the same for the growth rate, which is never NaN and can be negative
ToFixed1Signed(h) == IF h >= 0 THEN (h + 5) \div 10 ELSE -((5 - h) \div 10)

\* a display string: a number followed by a suffix
Display(v, suffix) == [value |-> v, suffix |-> suffix]

generateInsights(predictions, features, inputData) ==
  LET pipeline == features.orderPipelineStrength
  IN [ keyDrivers |-> <<
         [ factor |-> "Order Pipeline Strength",
           impact |-> IF pipeline.num > 100 * pipeline.den THEN "Positive"
                      ELSE IF pipeline.num < 60 * pipeline.den THEN "Negative"
                      ELSE "Neutral",
           strength |-> Display(MulDivRound(pipeline.num, 10, pipeline.den), "%") ],
         [ factor |-> "Operational Efficiency",
           impact |-> IF features.operationalEfficiency > 8000 THEN "Positive"
                      ELSE IF features.operationalEfficiency < 7000
                             THEN "Needs Improvement"
                      ELSE "Average",
           strength |-> Display(ToFixed1(features.operationalEfficiency), "%") ],
         [ factor |-> "Recent Revenue Growth",
           impact |-> IF features.revenueGrowth > 500 THEN "Positive"
                      ELSE IF features.revenueGrowth < 0 THEN "Negative"
                      ELSE "Stable",
           strength |-> Display(ToFixed1Signed(features.revenueGrowth), "%") ],
         [ factor |-> "Market Conditions",
           impact |-> IF Gt(features.economicConditions, 6000) THEN "Favorable"
                      ELSE "Challenging",
           strength |-> Display(ToFixed1(features.economicConditions), "/100") ] >>,
       riskFactors |-> <<
         [ risk |-> "Buyer Concentration",
           level |-> IF features.buyerConcentrationRisk > 70 THEN "High"
                     ELSE IF features.buyerConcentrationRisk < 40 THEN "Low"
                     ELSE "Medium",
           score |-> Display(features.buyerConcentrationRisk, "/100") ],
         [ risk |-> "Exchange Rate Volatility Impact",
           level |-> IF Gt(features.exchangeRateImpact, 500) THEN "High" ELSE "Low",
           score |-> Display(ToFixed1(features.exchangeRateImpact), "%") ],
         [ risk |-> "Revenue Volatility",
           level |-> IF features.revenueVolatility > 1500 THEN "High"
                     ELSE IF features.revenueVolatility < 500 THEN "Low"
                     ELSE "Medium",
           score |-> Display(ToFixed1(features.revenueVolatility), "%") ] >> ]

RecDiversify == "Diversify buyer base to mitigate revenue dependency on a few key clients."
RecOperations == "Invest in operational improvements: enhance first-pass quality and on-time delivery rates."
RecPipeline == "Strengthen sales and marketing efforts to build a more robust order pipeline."
RecHedging == "Evaluate currency hedging strategies to manage risks from LKR exchange rate fluctuations."
RecDataQuality == "Improve data collection for more accurate forecasting; ensure all key metrics are regularly updated."
RecPenetration == "Focus on aggressive market penetration and customer acquisition strategies."
RecContinuity == "Develop and test business continuity plans for potential natural disasters."
RecMaintain == "Maintain current strategies; review key metrics regularly."
RecFallback == "Enhanced prediction engine encountered an issue. Providing basic trend-based forecast. Review inputs or system logs."

\* generateRecommendations returning the list as collected, without the
\* default entry for an empty one
generateRecommendationsNoDefault(features, inputData) ==
  LET push(cond, text) == IF cond THEN <<text>> ELSE <<>>
      pipeline == features.orderPipelineStrength
  IN push(features.buyerConcentrationRisk > 60, RecDiversify)
     \o push(features.operationalEfficiency < 7500, RecOperations)
     \o push(pipeline.num < 80 * pipeline.den, RecPipeline)
     \o push(Gt(features.exchangeRateImpact, 500), RecHedging)
     \o push(features.dataQualityScore < 70, RecDataQuality)
     \o push(features.companyLifecycleStage = "startup" /\ features.revenueGrowth < 1000,
             RecPenetration)
     \o push(features.naturalDisasterLikelihood = "high", RecContinuity)

generateRecommendations(features, inputData) ==
  LET push(cond, text) == IF cond THEN <<text>> ELSE <<>>
      pipeline == features.orderPipelineStrength
      recommendations ==
        push(features.buyerConcentrationRisk > 60, RecDiversify)
        \o push(features.operationalEfficiency < 7500, RecOperations)
        \o push(pipeline.num < 80 * pipeline.den, RecPipeline)
        \o push(Gt(features.exchangeRateImpact, 500), RecHedging)
        \o push(features.dataQualityScore < 70, RecDataQuality)
        \o push(features.companyLifecycleStage = "startup" /\ features.revenueGrowth < 1000,
                RecPenetration)
        \o push(features.naturalDisasterLikelihood = "high", RecContinuity)
  IN IF Len(recommendations) > 0 THEN recommendations ELSE <<RecMaintain>>

(***************************************************************************)
(* The static methods the class EnhancedPredictionEngine defines (lines    *)
(* 58-440).  generateEnhancedPrediction calls this.calculateAccuracyScore  *)
(* (line 80), which the class does not define: the call raises a           *)
(* TypeError ("this.calculateAccuracyScore is not a function").            *)
(***************************************************************************)
EngineMethods ==
  { "generateEnhancedPrediction", "calculateEnhancedFeatures", "runEnsemblePrediction",
    "applyIndustryAdjustments", "calculateOrderPipelineStrength", "calculateBuyerRisk",
    "calculateOperationalEfficiency", "calculateExchangeRateImpact",
    "calculateGrowthRate", "calculateVolatility", "trendBasedPrediction",
    "pipelineBasedPrediction", "seasonalAdjustedPrediction", "getSeasonalFactor",
    "isRamadanPeriod", "calculatePredictionConfidence", "generateInsights",
    "generateRecommendations", "assessDataQuality", "calculateOverallRisk",
    "calculateMarketPosition", "calculateRawMaterialImpact", "assessEconomicConditions",
    "calculateSeasonality", "getExternalData", "getFallbackExternalData",
    "basicPredictionFallback" }

IsFunction(method) == method \in EngineMethods

\* what the specification says the missing method returns: a fixed band
calculateAccuracyScore(features) == "75-80%"

(***************************************************************************)
(* Stage 1, the external context                                           *)
(***************************************************************************)
RawMaterialPrices(cotton, polyester, dye) ==
  [defined |-> TRUE, cottonPriceLKR |-> cotton, polyesterPriceLKR |-> polyester,
   dyeCostIndex |-> dye]

EconomicIndicators(gdp, inflation, export, unemployment) ==
  [defined |-> TRUE, gdpGrowthRate |-> gdp, inflationRate |-> inflation,
   exportGrowthRate |-> export, unemploymentRate |-> unemployment]

\* a property the record lacks (or holds null in)
NoRawMaterialPrices ==
  [defined |-> FALSE, cottonPriceLKR |-> Undefined, polyesterPriceLKR |-> Undefined,
   dyeCostIndex |-> Undefined]

NoEconomicIndicators ==
  [defined |-> FALSE, gdpGrowthRate |-> Undefined, inflationRate |-> Undefined,
   exportGrowthRate |-> Undefined, unemploymentRate |-> Undefined]

getFallbackExternalData ==
  [ exchangeRate |-> 32550,
    rawMaterialPrices |-> RawMaterialPrices(410, 360, 105),
    economicIndicators |-> EconomicIndicators(18, 55, 42, 49) ]

\* getExternalData returning docSnap.data() without asking docSnap.exists()
getExternalDataUnchecked(doc) ==
  IF doc.status = "error" THEN getFallbackExternalData ELSE doc.data

\* doc is the state of 'externalData/current': status "error" when getDoc
\* rejects, else exists and, when it exists, data
getExternalData(doc) ==
  IF doc.status = "error" THEN getFallbackExternalData
  ELSE IF doc.exists THEN doc.data
  ELSE getFallbackExternalData

(***************************************************************************)
(* The Basic Fallback Predictor                                            *)
(***************************************************************************)
\* the fallback indexing revenue[revenue.length - 1] without the length test
basicPredictionFallbackThrowsOnEmpty(inputData) ==
  Len(inputData.historicalRevenue) = 0

\* the fallback reading revenue[revenue.length - 1].revenue without the ?.
basicPredictionFallbackThrowsOnNull(inputData) ==
  LET revenue == inputData.historicalRevenue
  IN Len(revenue) > 0 /\ revenue[Len(revenue)].isNull

\* revenue[revenue.length - 1]?.revenue and the ?. of calculateGrowthRate read
\* null items without raising, and the length is tested before indexing
basicPredictionFallbackThrows(inputData) == FALSE

\* a fallback that gives a start-up the 1.1 of the industry adjustments
basicPredictionFallbackByStage(inputData) ==
  LET revenue == inputData.historicalRevenue
      latestRevenue == IF Len(revenue) > 0
                         THEN Or(OptRevenue(revenue[Len(revenue)]), 0) ELSE 0
      growth == calculateGrowthRate(revenue, 6)
      stage == IF inputData.companyLifecycleStage = "startup" THEN 110 ELSE 100
      basicPrediction ==
        RatScale(Rat(BigMul(ToBig(latestRevenue), ToBig(10000 + growth)), 1, 4), stage, 2)
  IN [ predictions |->
         [ nextMonth |-> MathMax0(MathRound(RatScale(basicPrediction, 33, 2))),
           nextQuarter |-> MathMax0(MathRound(basicPrediction)),
           nextSixMonths |-> MathMax0(MathRound(RatScale(basicPrediction, 2, 0))),
           nextYear |-> MathMax0(MathRound(RatScale(basicPrediction, 4, 0))),
           confidence |-> 70,
           adjustmentFactor |-> 10000 ],
       insights |->
         [ keyDrivers |-> << [ factor |-> "Historical Trend (Fallback)",
                               impact |-> IF growth > 0 THEN "Positive" ELSE "Negative",
                               strength |-> Display(ToFixed1Signed(growth), "%") ] >>,
           riskFactors |-> << [ risk |-> "Data Limitation / Prediction Fallback",
                                level |-> "High",
                                score |-> Display(0, "N/A") ] >> ],
       accuracy |-> "65-75%",
       recommendations |-> <<RecFallback>> ]

\* the fallback reporting the ensemble's figures: confidence 75, band "75-80%"
basicPredictionFallbackEnsembleBand(inputData) ==
  LET revenue == inputData.historicalRevenue
      latestRevenue == IF Len(revenue) > 0
                         THEN Or(OptRevenue(revenue[Len(revenue)]), 0) ELSE 0
      growth == calculateGrowthRate(revenue, 6)
      basicPrediction == Rat(BigMul(ToBig(latestRevenue), ToBig(10000 + growth)), 1, 4)
  IN [ predictions |->
         [ nextMonth |-> MathMax0(MathRound(RatScale(basicPrediction, 33, 2))),
           nextQuarter |-> MathMax0(MathRound(basicPrediction)),
           nextSixMonths |-> MathMax0(MathRound(RatScale(basicPrediction, 2, 0))),
           nextYear |-> MathMax0(MathRound(RatScale(basicPrediction, 4, 0))),
           confidence |-> 75,
           adjustmentFactor |-> 10000 ],
       insights |->
         [ keyDrivers |-> << [ factor |-> "Historical Trend (Fallback)",
                               impact |-> IF growth > 0 THEN "Positive" ELSE "Negative",
                               strength |-> Display(ToFixed1Signed(growth), "%") ] >>,
           riskFactors |-> << [ risk |-> "Data Limitation / Prediction Fallback",
                                level |-> "High",
                                score |-> Display(0, "N/A") ] >> ],
       accuracy |-> "75-80%",
       recommendations |-> <<RecFallback>> ]

basicPredictionFallback(inputData) ==
  LET revenue == inputData.historicalRevenue
      latestRevenue == IF Len(revenue) > 0
                         THEN Or(OptRevenue(revenue[Len(revenue)]), 0) ELSE 0
      kind == calculateGrowthRateKind(revenue, 6)
      finite == kind = "number" /\ latestRevenue # Infinity
      growth == IF kind = "number" THEN calculateGrowthRate(revenue, 6) ELSE 0
      basicPrediction ==
        IF finite THEN Rat(BigMul(ToBig(latestRevenue), ToBig(10000 + growth)), 1, 4)
        ELSE IF kind = "NaN" THEN RatNaN
        ELSE RatInfinity
      \* Math.max(0, Math.round(x * k)): NaN and Infinity pass through both
      horizon(k, e) == IF finite THEN MathMax0(MathRound(RatScale(basicPrediction, k, e)))
                       ELSE basicPrediction
  IN [ predictions |->
         [ nextMonth |-> horizon(33, 2),
           nextQuarter |-> horizon(1, 0),
           nextSixMonths |-> horizon(2, 0),
           nextYear |-> horizon(4, 0),
           confidence |-> 70,
           adjustmentFactor |-> 10000 ],
       insights |->
         [ keyDrivers |-> << [ factor |-> "Historical Trend (Fallback)",
                               impact |-> IF kind = "Infinity" \/ (kind = "number" /\ growth > 0)
                                            THEN "Positive" ELSE "Negative",
                               strength |-> IF kind = "number"
                                              THEN Display(ToFixed1Signed(growth), "%")
                                              ELSE Display(0, kind \o "%") ] >>,
           riskFactors |-> << [ risk |-> "Data Limitation / Prediction Fallback",
                                level |-> "High",
                                score |-> Display(0, "N/A") ] >> ],
       accuracy |-> "65-75%",
       recommendations |-> <<RecFallback>> ]

(***************************************************************************)
(* Bounds of the model                                                     *)
(***************************************************************************)
\* the longest history tried (12 points switch the seasonality feature and
\* the first history bonus of the data quality score on)
MaxLen == 12
\* how often the wall clock moves on during one call
MaxTicks == 1

(***************************************************************************)
(* The inputs tried                                                        *)
(***************************************************************************)
\* a history of len points: the last one, the one six positions before it
\* (the reference point of the growth rate) and the others
History(len, ref, fill, last) ==
  [i \in 1..len |-> IF i = len THEN Item(last)
                    ELSE IF i = len - 6 THEN Item(ref)
                    ELSE Item(fill)]

\* the same with a null in place of the item at position hole
WithNull(revenue, hole) ==
  [i \in 1..Len(revenue) |-> IF i = hole THEN NullItem ELSE revenue[i]]

\* [1,000,000 x 6, 1,100,000]
SevenPointHistory == History(7, 1000000, 1000000, 1100000)

Lengths == {0, 1, 6, 7, MaxLen}

Histories ==
  { History(len, ref, 1000000, last) :
      len \in Lengths, ref \in {0, 1000000}, last \in {0, 1, 1100000} }
  \cup { History(len, 400000, 1000000, 2000000) : len \in {3, 7, MaxLen} }

\* arrays that hold a null: last item, an inner item, the reference item
HistoriesWithNull ==
  { WithNull(SevenPointHistory, 7), WithNull(SevenPointHistory, 3),
    WithNull(SevenPointHistory, 1), WithNull(History(2, 0, 1000000, 1100000), 1) }

Input(revenue, company, metrics) ==
  [ historicalRevenue |-> revenue,
    productionCapacity |-> company.productionCapacity,
    marketingSpend |-> company.marketingSpend,
    laborCostIndex |-> company.laborCostIndex,
    companyLifecycleStage |-> company.companyLifecycleStage,
    naturalDisasterLikelihood |-> company.naturalDisasterLikelihood,
    confirmedOrdersValue |-> metrics.confirmedOrdersValue,
    orderBacklog |-> metrics.orderBacklog,
    top3BuyersPercentage |-> metrics.top3BuyersPercentage,
    buyerRetentionRate |-> metrics.buyerRetentionRate,
    firstPassQualityRate |-> metrics.firstPassQualityRate,
    onTimeDeliveryRate |-> metrics.onTimeDeliveryRate,
    currentExchangeRate |-> metrics.currentExchangeRate ]

Companies(capacities, spends, labor, stages, likelihoods) ==
  [ productionCapacity : capacities, marketingSpend : spends, laborCostIndex : labor,
    companyLifecycleStage : stages, naturalDisasterLikelihood : likelihoods ]

Stages == {"startup", "growth", "maturity", "decline"}
Likelihoods == {"low", "medium", "high"}

\* productionCapacity 10000, marketingSpend 0, laborCostIndex 1.0, maturity, low
DefaultCompany ==
  [ productionCapacity |-> 10000, marketingSpend |-> 0, laborCostIndex |-> 100,
    companyLifecycleStage |-> "maturity", naturalDisasterLikelihood |-> "low" ]

Metrics(orders, backlog, top3, retention, quality, delivery, rate) ==
  [ confirmedOrdersValue : orders, orderBacklog : backlog, top3BuyersPercentage : top3,
    buyerRetentionRate : retention, firstPassQualityRate : quality,
    onTimeDeliveryRate : delivery, currentExchangeRate : rate ]

\* no optional field
NoMetrics ==
  [ confirmedOrdersValue |-> Undefined, orderBacklog |-> Undefined,
    top3BuyersPercentage |-> Undefined, buyerRetentionRate |-> Undefined,
    firstPassQualityRate |-> Undefined, onTimeDeliveryRate |-> Undefined,
    currentExchangeRate |-> Undefined ]

\* every optional field given, a strong and a weak company
StrongMetrics ==
  [ confirmedOrdersValue |-> 1500000, orderBacklog |-> 200000,
    top3BuyersPercentage |-> 35, buyerRetentionRate |-> 90,
    firstPassQualityRate |-> 100, onTimeDeliveryRate |-> 100,
    currentExchangeRate |-> 32000 ]

WeakMetrics ==
  [ confirmedOrdersValue |-> 300000, orderBacklog |-> 0,
    top3BuyersPercentage |-> 85, buyerRetentionRate |-> 40,
    firstPassQualityRate |-> 60, onTimeDeliveryRate |-> 70,
    currentExchangeRate |-> 36000 ]

\* only the buyer concentration given, and that the highest
ConcentratedMetrics ==
  [ confirmedOrdersValue |-> Undefined, orderBacklog |-> Undefined,
    top3BuyersPercentage |-> 100, buyerRetentionRate |-> Undefined,
    firstPassQualityRate |-> Undefined, onTimeDeliveryRate |-> Undefined,
    currentExchangeRate |-> Undefined ]

\* an input as the specification's data model describes it: every item a
\* {name, revenue} record
ValidInput(inputData) == ~HasNullItem(inputData.historicalRevenue)

(***************************************************************************)
(* The states of the stored record 'externalData/current'                  *)
(***************************************************************************)
Doc(status, exists, data) == [status |-> status, exists |-> exists, data |-> data]

\* a complete record, the rate 6.25 % above the baseline
CompleteRecord ==
  [ exchangeRate |-> 34000,
    rawMaterialPrices |-> RawMaterialPrices(420, 365, 110),
    economicIndicators |-> EconomicIndicators(30, 40, 50, 45) ]

\* a record with no field
EmptyRecord ==
  [ exchangeRate |-> Undefined,
    rawMaterialPrices |-> NoRawMaterialPrices,
    economicIndicators |-> NoEconomicIndicators ]

\* a record whose fields hold strings
StringRecord ==
  [ exchangeRate |-> NotNumeric,
    rawMaterialPrices |-> RawMaterialPrices(NotNumeric, NotNumeric, NotNumeric),
    economicIndicators |-> EconomicIndicators(NotNumeric, 40, 50, 45) ]

MalformedRecords == {EmptyRecord, StringRecord}

FetchError == Doc("error", FALSE, EmptyRecord)
NotFound == Doc("ok", FALSE, EmptyRecord)
Found(data) == Doc("ok", TRUE, data)

Docs == {FetchError, NotFound} \cup {Found(d) : d \in {CompleteRecord} \cup MalformedRecords}

(***************************************************************************)
(* The instants the wall clock passes through                              *)
(***************************************************************************)
Timeline ==
  << Instant(2024, 3, 9, 12),    \* March, the day before the 2024 range
     Instant(2024, 3, 10, 0),    \* first instant of the 2024 range
     Instant(2024, 4, 9, 0),     \* last instant of the 2024 range
     Instant(2024, 5, 31, 23),   \* May
     Instant(2024, 6, 1, 0),     \* June: monsoon
     Instant(2026, 11, 5, 12) >> \* a year outside the table

(***************************************************************************)
(* One call of generateEnhancedPrediction                                  *)
(***************************************************************************)
VARIABLES
  inputData,            \* the caller's argument
  doc,                  \* the stored record 'externalData/current'
  now,                  \* the wall clock, a position of Timeline
  ticks,                \* how often the clock moved during the call
  pc,                   \* the stage the call is about to run
  fetches,              \* getDoc requests issued
  externalData,         \* result of stage 1
  features,             \* result of stage 2
  predictions,          \* result of stage 3
  adjustedPredictions,  \* result of stage 4
  insights,             \* result of stage 5
  computedRecommendations, \* what generateRecommendations returned, if called
  raisedAt,             \* the stage an exception came out of ("none": none)
  forced,               \* the exception was forced on the stage from outside
  outcome,              \* "pending", "returned" or "threw"
  result,               \* the value returned
  calls,                \* the calls in progress side by side, one record each
  probe                 \* one function of the engine applied to one argument

vars == << inputData, doc, now, ticks, pc, fetches, externalData, features, predictions,
           adjustedPredictions, insights, computedRecommendations, raisedAt, forced,
           outcome, result, calls, probe >>

\* the variables of the single call
callVars == << inputData, pc, fetches, externalData, features, predictions,
               adjustedPredictions, insights, computedRecommendations, raisedAt, forced,
               outcome, result >>

\* a local that holds nothing yet
Nothing == [nothing |-> TRUE]

PipelineStages == {"context", "features", "ensemble", "adjust", "insights"}

InitWith(inputs, docs, starts) ==
  /\ inputData \in inputs
  /\ doc \in docs
  /\ now \in starts
  /\ ticks = 0
  /\ pc = "idle"
  /\ fetches = 0
  /\ externalData = Nothing
  /\ features = Nothing
  /\ predictions = Nothing
  /\ adjustedPredictions = Nothing
  /\ insights = Nothing
  /\ computedRecommendations = Nothing
  /\ raisedAt = "none"
  /\ forced = FALSE
  /\ outcome = "pending"
  /\ result = Nothing
  /\ calls = <<>>
  /\ probe = Nothing

\* generateEnhancedPrediction is entered; getExternalData issues getDoc
Call ==
  /\ UNCHANGED << calls, probe >>
  /\ pc = "idle"
  /\ pc' = "context"
  /\ fetches' = fetches + 1
  /\ UNCHANGED << inputData, doc, now, ticks, externalData, features, predictions,
                  adjustedPredictions, insights, computedRecommendations, raisedAt,
                  forced, outcome, result >>

\* getDoc settles and getExternalData returns
FetchResolve ==
  /\ UNCHANGED << calls, probe >>
  /\ pc = "context"
  /\ externalData' = getExternalData(doc)
  /\ pc' = "features"
  /\ UNCHANGED << inputData, doc, now, ticks, fetches, features, predictions,
                  adjustedPredictions, insights, computedRecommendations, raisedAt,
                  forced, outcome, result >>

\* an exception leaves the try block at `stage`
Thrown(stage, byForce) ==
  /\ pc' = "caught"
  /\ raisedAt' = stage
  /\ forced' = byForce

\* a stage 2 that turns the caller's array round, in place, to have the
\* latest record first
CalculateFeaturesReversing ==
  /\ UNCHANGED << calls, probe >>
  /\ pc = "features"
  /\ LET revenue == inputData.historicalRevenue
     IN inputData' = [inputData EXCEPT !.historicalRevenue =
                        [i \in 1..Len(revenue) |-> revenue[Len(revenue) + 1 - i]]]
  /\ IF calculateEnhancedFeaturesThrows(inputData)
       THEN /\ Thrown("features", FALSE)
            /\ UNCHANGED features
       ELSE /\ features' = calculateEnhancedFeatures(inputData, externalData, Timeline[now])
            /\ pc' = "ensemble"
            /\ UNCHANGED << raisedAt, forced >>
  /\ UNCHANGED << doc, now, ticks, fetches, externalData, predictions,
                  adjustedPredictions, insights, computedRecommendations, outcome, result >>

CalculateFeatures ==
  /\ UNCHANGED << calls, probe >>
  /\ pc = "features"
  /\ IF calculateEnhancedFeaturesThrows(inputData)
       THEN /\ Thrown("features", FALSE)
            /\ UNCHANGED features
       ELSE /\ features' = calculateEnhancedFeatures(inputData, externalData, Timeline[now])
            /\ pc' = "ensemble"
            /\ UNCHANGED << raisedAt, forced >>
  /\ UNCHANGED << inputData, doc, now, ticks, fetches, externalData, predictions,
                  adjustedPredictions, insights, computedRecommendations, outcome, result >>

RunEnsemble ==
  /\ UNCHANGED << calls, probe >>
  /\ pc = "ensemble"
  /\ predictions' = runEnsemblePrediction(features, Timeline[now])
  /\ pc' = "adjust"
  /\ UNCHANGED << inputData, doc, now, ticks, fetches, externalData, features,
                  adjustedPredictions, insights, computedRecommendations, raisedAt,
                  forced, outcome, result >>

ApplyAdjustments ==
  /\ UNCHANGED << calls, probe >>
  /\ pc = "adjust"
  /\ adjustedPredictions' =
       applyIndustryAdjustments(predictions, features, Timeline[now], Timeline[now])
  /\ pc' = "insights"
  /\ UNCHANGED << inputData, doc, now, ticks, fetches, externalData, features,
                  predictions, insights, computedRecommendations, raisedAt, forced,
                  outcome, result >>

GenerateInsights ==
  /\ UNCHANGED << calls, probe >>
  /\ pc = "insights"
  /\ insights' = generateInsights(adjustedPredictions, features, inputData)
  /\ pc' = "result"
  /\ UNCHANGED << inputData, doc, now, ticks, fetches, externalData, features,
                  predictions, adjustedPredictions, computedRecommendations, raisedAt,
                  forced, outcome, result >>

\* the object literal of the return statement, its properties evaluated in
\* order: predictions, insights, accuracy, recommendations
BuildResult ==
  /\ UNCHANGED << calls, probe >>
  /\ pc = "result"
  /\ IF IsFunction("calculateAccuracyScore")
       THEN /\ computedRecommendations' = generateRecommendations(features, inputData)
            /\ result' = [ predictions |-> adjustedPredictions,
                           insights |-> insights,
                           accuracy |-> calculateAccuracyScore(features),
                           recommendations |-> generateRecommendations(features, inputData) ]
            /\ outcome' = "returned"
            /\ pc' = "done"
            /\ UNCHANGED << raisedAt, forced >>
       ELSE /\ Thrown("result", FALSE)
            /\ UNCHANGED << computedRecommendations, result, outcome >>
  /\ UNCHANGED << inputData, doc, now, ticks, fetches, externalData, features,
                  predictions, adjustedPredictions, insights >>

\* a stage is made to raise (a forced failure of the stage)
Raise ==
  /\ UNCHANGED << calls, probe >>
  /\ pc \in PipelineStages
  /\ Thrown(pc, TRUE)
  /\ UNCHANGED << inputData, doc, now, ticks, fetches, externalData, features,
                  predictions, adjustedPredictions, insights, computedRecommendations,
                  outcome, result >>

\* a catch clause that asks the store again before it falls back
CatchRefetching ==
  /\ UNCHANGED << calls, probe >>
  /\ pc = "caught"
  /\ fetches' = fetches + 1
  /\ outcome' = "returned"
  /\ result' = basicPredictionFallback(inputData)
  /\ pc' = "done"
  /\ UNCHANGED << inputData, doc, now, ticks, externalData, features, predictions,
                  adjustedPredictions, insights, computedRecommendations, raisedAt,
                  forced >>

\* the catch clause: log, then return basicPredictionFallback(inputData)
Catch ==
  /\ UNCHANGED << calls, probe >>
  /\ pc = "caught"
  /\ IF basicPredictionFallbackThrows(inputData)
       THEN /\ outcome' = "threw"
            /\ UNCHANGED result
       ELSE /\ outcome' = "returned"
            /\ result' = basicPredictionFallback(inputData)
  /\ pc' = "done"
  /\ UNCHANGED << inputData, doc, now, ticks, fetches, externalData, features,
                  predictions, adjustedPredictions, insights, computedRecommendations,
                  raisedAt, forced >>

\* the wall clock moves on while the call is in progress
Tick ==
  /\ UNCHANGED << calls, probe >>
  /\ pc \notin {"idle", "done"}
  /\ ticks < MaxTicks
  /\ now < Len(Timeline)
  /\ now' = now + 1
  /\ ticks' = ticks + 1
  /\ UNCHANGED << inputData, doc, pc, fetches, externalData, features, predictions,
                  adjustedPredictions, insights, computedRecommendations, raisedAt,
                  forced, outcome, result >>

Next ==
  \/ Call
  \/ FetchResolve
  \/ CalculateFeatures
  \/ RunEnsemble
  \/ ApplyAdjustments
  \/ GenerateInsights
  \/ BuildResult
  \/ Raise
  \/ Catch
  \/ Tick

(***************************************************************************)
(* Specifications: the same call on different families of inputs           *)
(***************************************************************************)
\* error handling and control flow: every history, with and without nulls,
\* every state of the stored record
FlowInputs ==
  { Input(h, c, m) :
      h \in Histories \cup HistoriesWithNull,
      c \in Companies({10000}, {0}, {100}, {"maturity", "startup"}, {"low"}),
      m \in {NoMetrics, StrongMetrics, WeakMetrics, ConcentratedMetrics} }

Init == InitWith(FlowInputs, Docs, {1, 5})

Spec == Init /\ [][Next]_vars

(***************************************************************************)
(* JSON.stringify and JSON.parse on an EnhancedInputData: a property whose *)
(* value is undefined is left out, a null array element is written as      *)
(* null, a number is written in decimal digits, NaN and Infinity as null   *)
(***************************************************************************)
JsonNull == [kind |-> "null"]
JsonNumber(n) == IF n \in {NaN, Infinity} THEN JsonNull
                 ELSE [kind |-> "number", digits |-> ToBig(n)]
JsonString(text) == [kind |-> "string", text |-> text]

NumberFields ==
  { "productionCapacity", "marketingSpend", "laborCostIndex", "confirmedOrdersValue",
    "orderBacklog", "top3BuyersPercentage", "buyerRetentionRate", "firstPassQualityRate",
    "onTimeDeliveryRate", "currentExchangeRate" }
StringFields == {"companyLifecycleStage", "naturalDisasterLikelihood"}

JsonItem(item) ==
  IF item.isNull THEN JsonNull
  ELSE [ kind |-> "object",
         members |-> [ k \in {"name"} \cup (IF item.revenue = Undefined THEN {} ELSE {"revenue"})
                         |-> IF k = "name" THEN JsonString("period")
                             ELSE JsonNumber(item.revenue) ] ]

JsonStringify(input) ==
  [ historicalRevenue |->
      [i \in 1..Len(input.historicalRevenue) |-> JsonItem(input.historicalRevenue[i])],
    members |->
      [ k \in {f \in NumberFields : input[f] # Undefined} \cup StringFields
          |-> IF k \in NumberFields THEN JsonNumber(input[k])
              ELSE JsonString(input[k]) ] ]

\* the value a JSON member reads back as; a member that is absent reads as
\* undefined
JsonValue(members, k) ==
  IF k \notin DOMAIN members THEN Undefined
  ELSE IF members[k].kind = "number" THEN BigToInt(members[k].digits)
  ELSE IF members[k].kind = "string" THEN members[k].text
  ELSE NotNumeric

JsonParseItem(json) ==
  IF json.kind = "null" THEN NullItem ELSE Item(JsonValue(json.members, "revenue"))

\* a parser that skips the null elements of an array
JsonParseSkippingNull(json) ==
  LET RECURSIVE Kept(_)
      Kept(i) == IF i > Len(json.historicalRevenue) THEN <<>>
                 ELSE IF json.historicalRevenue[i].kind = "null" THEN Kept(i + 1)
                 ELSE <<JsonParseItem(json.historicalRevenue[i])>> \o Kept(i + 1)
  IN [ k \in NumberFields \cup StringFields \cup {"historicalRevenue"} |->
         IF k = "historicalRevenue" THEN Kept(1) ELSE JsonValue(json.members, k) ]

JsonParse(json) ==
  [ k \in NumberFields \cup StringFields \cup {"historicalRevenue"} |->
      IF k = "historicalRevenue"
        THEN [i \in 1..Len(json.historicalRevenue) |-> JsonParseItem(json.historicalRevenue[i])]
        ELSE JsonValue(json.members, k) ]

(***************************************************************************)
(* predictRevenueFlow: the payload, its validation, the error report       *)
(***************************************************************************)
\* an element of the parsed historicalRevenueData
RawItem(hasName, revenue) == [isNull |-> FALSE, hasName |-> hasName, revenue |-> revenue]
RawNull == [isNull |-> TRUE, hasName |-> FALSE, revenue |-> Undefined]

\* historicalRevenueData as JSON.parse sees it: text that does not parse
\* ("malformed", with the message of the SyntaxError and the patterns of
\* handleApiError that message contains), a value that is no array
\* ("object"), or an array of elements
Payload(json, items, parserMessage, mentions, company, metrics) ==
  [ json |-> json, items |-> items, parserMessage |-> parserMessage,
    mentions |-> mentions, company |-> company, metrics |-> metrics ]
NoPayload == Payload("none", <<>>, "", {}, Nothing, Nothing)

\* an item schema that asks for the revenue only
ItemSchemaAcceptsWithoutName(item) ==
  /\ ~item.isNull
  /\ item.revenue \notin {Undefined, NotNumeric, NaN}

\* HistoricalRevenueDataItemSchema.safeParse(item).success: an object whose
\* name is a string and whose revenue is a number; z.number() turns down
\* NaN and takes Infinity
ItemSchemaAccepts(item) ==
  /\ ~item.isNull
  /\ item.hasName
  /\ item.revenue \notin {Undefined, NotNumeric, NaN}

\* an Error: its message and the patterns the lower-cased message contains
Error(message, mentions) == [message |-> message, mentions |-> mentions]
NoError == Error("", {})

FormatMessage ==
  "Invalid historical revenue data format. Expected array of {name: string, revenue: number}."
UnexpectedFormatMessage == "Prediction engine returned data in an unexpected format."

\* the inner try / catch of the flow: the Error it throws, NoError if the
\* payload passes
ValidationFailure(payload) ==
  IF payload.json = "malformed"
    THEN Error("Invalid historical revenue data JSON: " \o payload.parserMessage,
               payload.mentions)
  ELSE IF \/ payload.json # "array"
          \/ \E i \in 1..Len(payload.items) : ~ItemSchemaAccepts(payload.items[i])
    THEN Error("Invalid historical revenue data JSON: " \o FormatMessage, {})
  ELSE NoError

\* APIErrorHandler.handleApiError on an Error
handleApiError(error) ==
  LET includes(patterns) == error.mentions \cap patterns # {}
  IN IF includes({"network error", "failed to fetch", "dns lookup failed"})
       THEN "Network error. Please check your internet connection and API endpoint. Ensure firewalls or proxies are not blocking requests."
     ELSE IF includes({"timeout", "timed out"})
       THEN "API request timed out. The server might be slow or overloaded. Please try again later."
     ELSE IF includes({"429", "rate limit", "too many requests"})
       THEN "Rate limit exceeded for an external API. Please wait before making more requests or check your API plan limits."
     ELSE IF includes({"401", "unauthorized", "api key not valid", "authentication failed"})
       THEN "Authentication failed with an external API. Please check your API credentials (API key, token) or contact support if the issue persists."
     ELSE IF includes({"403", "forbidden"})
       THEN "Access to the requested API resource is forbidden. Check permissions or API key scope."
     ELSE IF includes({"404", "not found"})
       THEN "The requested API endpoint or resource was not found. Please check the URL."
     ELSE IF includes({"503", "service unavailable", "server error"})
       THEN "An external API service is temporarily unavailable or experiencing issues. Please try again later."
     ELSE "An error occurred: " \o error.message

\* the outer catch of the flow
FlowFailure(error) == Error("Prediction failed: " \o handleApiError(error), {})

\* the engineInput object literal
EngineInput(payload) ==
  Input([i \in 1..Len(payload.items) |-> Item(payload.items[i].revenue)],
        payload.company, payload.metrics)

\* z.number(): every number but NaN
IsNumber(x) == x # RatNaN

\* a schema that takes every value
OutputSchemaAcceptsAnything(r) == TRUE

\* RevenuePredictionOutputSchema.safeParse(result).success
OutputSchemaAccepts(r) ==
  /\ IsNumber(r.predictions.nextMonth)
  /\ IsNumber(r.predictions.nextQuarter)
  /\ IsNumber(r.predictions.nextSixMonths)
  /\ IsNumber(r.predictions.nextYear)
  /\ r.predictions.confidence \in 0..100
  /\ r.predictions.adjustmentFactor # NaN
  /\ \A i \in 1..Len(r.insights.keyDrivers) :
       {"factor", "impact", "strength"} \subseteq DOMAIN r.insights.keyDrivers[i]
  /\ \A i \in 1..Len(r.insights.riskFactors) :
       {"risk", "level", "score"} \subseteq DOMAIN r.insights.riskFactors[i]
  /\ r.accuracy \in STRING
  /\ \A i \in 1..Len(r.recommendations) : r.recommendations[i] \in STRING

(***************************************************************************)
(* Calls side by side.  JavaScript runs a call to its next await without   *)
(* interruption; what runs between two awaits is one step here.            *)
(***************************************************************************)
CallIds == {"a", "b"}

\* the revenue array holds a number that is no rational
HasInfinite(revenue) ==
  \E i \in 1..Len(revenue) : ~revenue[i].isNull /\ revenue[i].revenue = Infinity

\* the value of a stage on such an array: none of the stages raises on it
\* (arithmetic, Math.round and toFixed take NaN and Infinity), and the value
\* itself is not worked out
NonFinite == [nonFinite |-> TRUE]

NewCall(via, payload, input) ==
  [ via |-> via,               \* "engine": generateEnhancedPrediction called directly
    payload |-> payload,       \* "flow": predictRevenueFlow called with this payload
    inputData |-> input,
    pc |-> "idle",
    fetches |-> 0,
    externalData |-> Nothing,
    features |-> Nothing,
    predictions |-> Nothing,
    adjustedPredictions |-> Nothing,
    insights |-> Nothing,
    readAt |-> [stage \in {"features", "ensemble", "adjust"} |-> 0],
    parkedAt |-> {},           \* the stages it waited at while something else ran
    raisedAt |-> "none",
    engineOutcome |-> "pending",
    engineResult |-> Nothing,
    outcome |-> "pending",
    result |-> Nothing,
    error |-> NoError ]

EngineCall(input) == NewCall("engine", NoPayload, input)
FlowCall(payload) == NewCall("flow", payload, Nothing)

\* one slot that the first call fills and every later call reads
LocalOfMemoised(cs, c, name) ==
  IF cs["a"][name] # Nothing THEN cs["a"][name] ELSE cs[c][name]

\* a local of the activation of call c: externalData, features, predictions,
\* adjustedPredictions and insights are consts of the call
LocalOf(cs, c, name) == cs[c][name]

\* an await in front of every stage
AwaitedStagesAll == PipelineStages

\* the stages whose call generateEnhancedPrediction awaits
AwaitedStages == {"context", "ensemble"}

StageAfter(stage) ==
  CASE stage = "context" -> "features"
    [] stage = "features" -> "ensemble"
    [] stage = "ensemble" -> "adjust"
    [] stage = "adjust" -> "insights"
    [] stage = "insights" -> "result"

\* the promise of generateEnhancedPrediction settles: a direct caller has
\* its answer, the flow's continuation is queued
Settled(call, how, value, stage) ==
  [ call EXCEPT !.pc = IF call.via = "flow" THEN "returning" ELSE "done",
                !.raisedAt = stage,
                !.engineOutcome = how,
                !.engineResult = value,
                !.outcome = IF call.via = "flow" THEN "pending" ELSE how,
                !.result = IF call.via = "flow" THEN Nothing ELSE value ]

\* the catch clause
Caught(call, stage) ==
  IF basicPredictionFallbackThrows(call.inputData)
    THEN Settled(call, "threw", Nothing, stage)
    ELSE Settled(call, "returned", basicPredictionFallback(call.inputData), stage)

\* call c runs `stage` at clock position t and goes on to its next await
RECURSIVE Run(_, _, _, _)
Run(cs, c, stage, t) ==
  LET call == cs[c]
      finite == ~HasInfinite(call.inputData.historicalRevenue)
      local(name) == LocalOf(cs, c, name)
      goOn(after) ==
        IF stage \in AwaitedStages THEN [after EXCEPT !.pc = stage]
        ELSE Run([cs EXCEPT ![c] = after], c, StageAfter(stage), t)
  IN CASE stage = "context" ->
            [call EXCEPT !.fetches = @ + 1, !.pc = "context"]
       [] stage = "features" ->
            IF calculateEnhancedFeaturesThrows(call.inputData)
              THEN Caught(call, "features")
              ELSE goOn([call EXCEPT
                     !.features = IF finite
                                    THEN calculateEnhancedFeatures(call.inputData,
                                           local("externalData"), Timeline[t])
                                    ELSE NonFinite,
                     !.readAt["features"] = t])
       [] stage = "ensemble" ->
            goOn([call EXCEPT
              !.predictions = IF finite
                                THEN runEnsemblePrediction(local("features"), Timeline[t])
                                ELSE NonFinite,
              !.readAt["ensemble"] = t])
       [] stage = "adjust" ->
            goOn([call EXCEPT
              !.adjustedPredictions =
                 IF finite
                   THEN applyIndustryAdjustments(local("predictions"), local("features"),
                                                 Timeline[t], Timeline[t])
                   ELSE NonFinite,
              !.readAt["adjust"] = t])
       [] stage = "insights" ->
            goOn([call EXCEPT
              !.insights = IF finite
                             THEN generateInsights(local("adjustedPredictions"),
                                                   local("features"), call.inputData)
                             ELSE NonFinite])
       [] stage = "result" ->
            IF IsFunction("calculateAccuracyScore")
              THEN Settled(call, "returned",
                           [ predictions |-> local("adjustedPredictions"),
                             insights |-> local("insights"),
                             accuracy |-> calculateAccuracyScore(local("features")),
                             recommendations |->
                               generateRecommendations(local("features"), call.inputData) ],
                           "none")
              ELSE Caught(call, "result")

\* the handler of the flow up to its first await: validation, engineInput,
\* the call of the engine
FlowEnter(cs, c, t) ==
  LET call == cs[c]
      failure == ValidationFailure(call.payload)
  IN IF failure # NoError
       THEN [call EXCEPT !.pc = "done", !.outcome = "threw", !.error = FlowFailure(failure)]
       ELSE Run([cs EXCEPT ![c] = [call EXCEPT !.inputData = EngineInput(call.payload)]],
                c, "context", t)

\* the calls after a step of c (of the clock, if c is no call): every other
\* call that waits at a stage has waited there while something else ran
Others(c, cs) ==
  [ d \in CallIds |->
      IF d # c /\ cs[d].pc \in PipelineStages
        THEN [cs[d] EXCEPT !.parkedAt = @ \cup {cs[d].pc}]
        ELSE cs[d] ]

Enter(c) ==
  /\ calls[c].pc = "idle"
  /\ calls' = Others(c, [calls EXCEPT ![c] =
                 IF calls[c].via = "flow" THEN FlowEnter(calls, c, now)
                 ELSE Run(calls, c, "context", now)])
  /\ UNCHANGED << doc, now, ticks >>
  /\ UNCHANGED callVars
  /\ UNCHANGED probe

\* getDoc settles; getExternalData returns and the call runs on
FetchSettle(c) ==
  /\ calls[c].pc = "context"
  /\ LET arrived == [calls EXCEPT ![c].externalData = getExternalData(doc)]
     IN calls' = Others(c, [calls EXCEPT ![c] = Run(arrived, c, "features", now)])
  /\ UNCHANGED << doc, now, ticks >>
  /\ UNCHANGED callVars
  /\ UNCHANGED probe

\* the call runs on after an await of a stage that had its value already
Continue(c) ==
  /\ calls[c].pc \in PipelineStages \ {"context"}
  /\ calls' = Others(c, [calls EXCEPT ![c] = Run(calls, c, StageAfter(calls[c].pc), now)])
  /\ UNCHANGED << doc, now, ticks >>
  /\ UNCHANGED callVars
  /\ UNCHANGED probe

\* the flow runs on after `await generateEnhancedPrediction(engineInput)`
FlowResume(c) ==
  /\ calls[c].pc = "returning"
  /\ LET call == calls[c]
         failure ==
           IF call.engineOutcome = "threw" THEN Error("engine", {})
           ELSE IF ~OutputSchemaAccepts(call.engineResult)
             THEN Error(UnexpectedFormatMessage, {})
           ELSE NoError
     IN calls' = Others(c, [calls EXCEPT ![c] =
          IF failure # NoError
            THEN [call EXCEPT !.pc = "done", !.outcome = "threw",
                              !.error = FlowFailure(failure)]
            ELSE [call EXCEPT !.pc = "done", !.outcome = "returned",
                              !.result = call.engineResult]])
  /\ UNCHANGED << doc, now, ticks >>
  /\ UNCHANGED callVars
  /\ UNCHANGED probe

\* the wall clock moves on while a call waits
TickCalls ==
  /\ \E c \in CallIds : calls[c].pc \notin {"idle", "done"}
  /\ ticks < MaxTicks
  /\ now < Len(Timeline)
  /\ now' = now + 1
  /\ ticks' = ticks + 1
  /\ calls' = Others("clock", calls)
  /\ UNCHANGED doc
  /\ UNCHANGED callVars
  /\ UNCHANGED probe

InitCalls(as, bs, docs, starts) ==
  /\ calls \in [CallIds -> as \cup bs]
  /\ calls["a"] \in as
  /\ calls["b"] \in bs
  /\ doc \in docs
  /\ now \in starts
  /\ ticks = 0
  /\ inputData = Input(SevenPointHistory, DefaultCompany, NoMetrics)
  /\ pc = "idle"
  /\ fetches = 0
  /\ externalData = Nothing
  /\ features = Nothing
  /\ predictions = Nothing
  /\ adjustedPredictions = Nothing
  /\ insights = Nothing
  /\ computedRecommendations = Nothing
  /\ raisedAt = "none"
  /\ forced = FALSE
  /\ outcome = "pending"
  /\ result = Nothing
  /\ probe = Nothing

\* direct calls of the engine: the smoke-test input, a growing start-up with
\* every optional field, an array with a null
EngineInputs ==
  { Input(SevenPointHistory, DefaultCompany, NoMetrics),
    Input(History(7, 400000, 1000000, 2000000),
          [DefaultCompany EXCEPT !.companyLifecycleStage = "startup"], StrongMetrics),
    Input(WithNull(SevenPointHistory, 3), DefaultCompany, NoMetrics) }

InitEngineCalls ==
  InitCalls({EngineCall(i) : i \in EngineInputs},
            {EngineCall(i) : i \in EngineInputs}
              \cup {EngineCall(JsonParse(JsonStringify(i))) : i \in EngineInputs},
            {FetchError, Found(CompleteRecord)}, {1, 4})

NextEngineCalls ==
  \/ \E c \in CallIds : Enter(c)
  \/ \E c \in CallIds : FetchSettle(c)
  \/ \E c \in CallIds : Continue(c)
  \/ TickCalls

SpecEngineCalls == InitEngineCalls /\ [][NextEngineCalls]_vars

\* calls of the flow: payloads that pass and payloads that do not
ArrayPayload(items) == Payload("array", items, "", {}, DefaultCompany, NoMetrics)

SevenPointItems == [i \in 1..7 |-> RawItem(TRUE, SevenPointHistory[i].revenue)]

FlowPayloads ==
  { ArrayPayload(SevenPointItems),
    ArrayPayload(<<>>),
    \* the reference point reads 1e400: the fallback's growth is NaN
    ArrayPayload([SevenPointItems EXCEPT ![1] = RawItem(TRUE, Infinity)]),
    \* the last point reads 1e400
    ArrayPayload([SevenPointItems EXCEPT ![7] = RawItem(TRUE, Infinity)]),
    ArrayPayload([SevenPointItems EXCEPT ![3] = RawItem(FALSE, 1000000)]),
    ArrayPayload([SevenPointItems EXCEPT ![3] = RawItem(TRUE, NotNumeric)]),
    ArrayPayload([SevenPointItems EXCEPT ![3] = RawItem(TRUE, Undefined)]),
    ArrayPayload([SevenPointItems EXCEPT ![3] = RawNull]),
    Payload("object", <<>>, "", {}, DefaultCompany, NoMetrics),
    Payload("malformed", <<>>, "Unexpected end of JSON input", {},
            DefaultCompany, NoMetrics),
    Payload("malformed", <<>>, "Unexpected token } in JSON at position 404", {"404"},
            DefaultCompany, NoMetrics) }

InitFlowCalls ==
  InitCalls({FlowCall(p) : p \in FlowPayloads},
            {FlowCall(ArrayPayload(SevenPointItems)),
             EngineCall(Input(SevenPointHistory, DefaultCompany, NoMetrics))},
            {FetchError, Found(CompleteRecord)}, {1})

NextFlowCalls ==
  \/ \E c \in CallIds : Enter(c)
  \/ \E c \in CallIds : FetchSettle(c)
  \/ \E c \in CallIds : Continue(c)
  \/ \E c \in CallIds : FlowResume(c)
  \/ TickCalls

SpecFlowCalls == InitFlowCalls /\ [][NextFlowCalls]_vars

(***************************************************************************)
(* Properties                                                              *)
(***************************************************************************)
\* a local of the call holds a value
Computed(x) == x # Nothing

\* a horizon of a PredictionResult: a whole number, not negative
NonNegativeInteger(x) ==
  /\ x.den > 0
  /\ \A i \in 1..Len(x.num) : x.num[i] \in 0..9
  /\ RatIsInteger(x)

\* the shape the interface EnhancedPredictionOutput declares
WellFormedResult(r) ==
  /\ DOMAIN r = {"predictions", "insights", "accuracy", "recommendations"}
  /\ DOMAIN r.predictions = {"nextMonth", "nextQuarter", "nextSixMonths", "nextYear",
                             "confidence", "adjustmentFactor"}
  /\ NonNegativeInteger(r.predictions.nextMonth)
  /\ NonNegativeInteger(r.predictions.nextQuarter)
  /\ NonNegativeInteger(r.predictions.nextSixMonths)
  /\ NonNegativeInteger(r.predictions.nextYear)
  /\ r.predictions.confidence \in 0..100
  /\ r.predictions.adjustmentFactor > 0
  /\ DOMAIN r.insights = {"keyDrivers", "riskFactors"}
  /\ Len(r.insights.keyDrivers) >= 1
  /\ \A i \in 1..Len(r.insights.keyDrivers) :
       DOMAIN r.insights.keyDrivers[i] = {"factor", "impact", "strength"}
  /\ Len(r.insights.riskFactors) >= 1
  /\ \A i \in 1..Len(r.insights.riskFactors) :
       DOMAIN r.insights.riskFactors[i] = {"risk", "level", "score"}
  /\ r.accuracy \in {"65-75%", "75-80%"}
  /\ Len(r.recommendations) >= 1

\* the input of the specification's smoke test: [1,000,000 x 6, 1,100,000],
\* capacity 10000, marketing spend 0, labor index 1.0, maturity, low, no
\* optional field
DefaultInput == Input(SevenPointHistory, DefaultCompany, NoMetrics)

\* every trigger of applyIndustryAdjustments but the trade bonus is off, at
\* a clock that did not move during the call
NeutralTriggers ==
  /\ inputData.companyLifecycleStage \in {"growth", "maturity"}
  /\ inputData.naturalDisasterLikelihood = "low"
  /\ ticks = 0
  /\ Timeline[now].month \notin 6..9
  /\ ~isRamadanPeriod(Timeline[now])
  /\ features.operationalEfficiency \in 7500..9000
  /\ features.exchangeRateImpact \in 0..1000
  /\ inputData.marketingSpend <= 1000000
  /\ inputData.laborCostIndex <= 110

\* C1: the call of generateEnhancedPrediction on an input whose
\* historicalRevenue is an array always completes by returning a well-formed
\* PredictionResult, and never by passing an exception to its caller,
\* whichever stage raised.
C1_CompletesWithWellFormedResult ==
  pc = "done" => outcome = "returned" /\ WellFormedResult(result)

\* a call that ended after its last pipeline stage was made to raise
C1_RaisedAndAnswered ==
  /\ pc = "done"
  /\ raisedAt = "insights"
  /\ outcome = "returned"

\* C2: for a valid input and with no stage made to raise, whether the context
\* fetch succeeded or failed, the result returned is the one built by stages
\* 2-5 (the adjusted ensemble predictions, the rule-based insights, the
\* accuracy band and the recommendations), not the fallback result.
C2_EnsembleResultReturned ==
  (pc = "done" /\ ValidInput(inputData) /\ ~forced) =>
    /\ outcome = "returned"
    /\ result.predictions = adjustedPredictions
    /\ result.insights = insights
    /\ result.accuracy = calculateAccuracyScore(features)
    /\ result.recommendations = generateRecommendations(features, inputData)

\* C3: the confidence of every result returned is an integer; the ensemble
\* path's confidence (the one stage 4 hands on) lies in 60..95 and the
\* fallback path's is exactly 70.
C3_ConfidenceRange ==
  /\ Computed(predictions) => predictions.confidence \in 60..95
  /\ Computed(adjustedPredictions) => adjustedPredictions.confidence \in 60..95
  /\ (pc = "done" /\ outcome = "returned") =>
       /\ result.predictions.confidence \in Int
       /\ (raisedAt = "none" => result.predictions.confidence \in 60..95)
       /\ (raisedAt # "none" => result.predictions.confidence = 70)

\* a call whose ensemble confidence was held at the floor of 60 and whose
\* returned confidence is the fallback's 70
C3_ClampedAtFloor ==
  /\ pc = "done"
  /\ outcome = "returned"
  /\ Computed(adjustedPredictions)
  /\ adjustedPredictions.confidence = 60
  /\ calculatePredictionConfidenceUnclamped(features) < 60
  /\ result.predictions.confidence = 70

\* C4: for a valid input, a six-period growth of -100 % included,
\* nextMonth, nextQuarter, nextSixMonths and nextYear are non-negative
\* integers, in what stage 4 produces and in the result returned by either
\* path.
C4_HorizonsNonNegativeIntegers ==
  /\ (Computed(adjustedPredictions) /\ ValidInput(inputData)) =>
       /\ NonNegativeInteger(adjustedPredictions.nextMonth)
       /\ NonNegativeInteger(adjustedPredictions.nextQuarter)
       /\ NonNegativeInteger(adjustedPredictions.nextSixMonths)
       /\ NonNegativeInteger(adjustedPredictions.nextYear)
  /\ (pc = "done" /\ outcome = "returned" /\ ValidInput(inputData)) =>
       /\ NonNegativeInteger(result.predictions.nextMonth)
       /\ NonNegativeInteger(result.predictions.nextQuarter)
       /\ NonNegativeInteger(result.predictions.nextSixMonths)
       /\ NonNegativeInteger(result.predictions.nextYear)

\* a finished call on a history whose last point fell to 1 from 1,000,000
\* (growth -100.00 %) and whose ensemble projection is not zero
C4_GrowthMinusHundred ==
  /\ pc = "done"
  /\ outcome = "returned"
  /\ Computed(adjustedPredictions)
  /\ features.revenueGrowth = -10000
  /\ features.baseRevenue = 1
  /\ Len(adjustedPredictions.nextYear.num) > 0

\* C5: the adjustmentFactor of the result returned is > 0, and with every
\* adjustment trigger neutral (stage growth or maturity, likelihood low,
\* outside June-September and the Ramadan table, efficiency in 75..90,
\* exchange-rate impact <= 0.10, marketing spend <= 1,000,000, labor index
\* <= 1.1) it is exactly 1.03.
C5_NeutralFactorReturned ==
  (pc = "done" /\ outcome = "returned") =>
    /\ result.predictions.adjustmentFactor > 0
    /\ (ValidInput(inputData) /\ ~forced /\ NeutralTriggers) =>
         result.predictions.adjustmentFactor = 10300

\* C6: getExternalData does not raise: when getDoc rejects or the record
\* 'externalData/current' does not exist it returns the fixed snapshot
\* (325.5; 410, 360, 1.05; 1.8, 5.5, 4.2, 4.9).
C6_FallbackSnapshot ==
  (pc = "features" /\ (doc.status = "error" \/ ~doc.exists)) =>
    /\ raisedAt = "none"
    /\ externalData.exchangeRate = 32550
    /\ externalData.rawMaterialPrices =
         [defined |-> TRUE, cottonPriceLKR |-> 410, polyesterPriceLKR |-> 360,
          dyeCostIndex |-> 105]
    /\ externalData.economicIndicators =
         [defined |-> TRUE, gdpGrowthRate |-> 18, inflationRate |-> 55,
          exportGrowthRate |-> 42, unemploymentRate |-> 49]

\* the lookup was rejected and stage 1 handed the snapshot on
C6_RejectedLookupAbsorbed ==
  /\ pc = "features"
  /\ doc.status = "error"
  /\ externalData = getFallbackExternalData

\* C7: when the stored record exists but is malformed (fields missing or
\* of the wrong type), getExternalData returns the fixed fallback snapshot,
\* so stage 2 receives a complete context.
C7_MalformedRecordReplaced ==
  (pc = "features" /\ doc.status = "ok" /\ doc.exists /\ doc.data \in MalformedRecords) =>
    /\ externalData = getFallbackExternalData
    /\ Truthy(externalData.exchangeRate)
    /\ externalData.rawMaterialPrices.defined
    /\ externalData.economicIndicators.defined

\* C8: when an exception is raised inside calculateEnhancedFeatures the
\* call returns the fallback result: confidence 70, accuracy "65-75%",
\* adjustmentFactor 1.0, the single key driver 'Historical Trend (Fallback)'
\* and the single risk factor 'Data Limitation / Prediction Fallback', High.
C8_FeatureFailureFallsBack ==
  (pc = "done" /\ raisedAt = "features") =>
    /\ outcome = "returned"
    /\ result.predictions.confidence = 70
    /\ result.accuracy = "65-75%"
    /\ result.predictions.adjustmentFactor = 10000
    /\ Len(result.insights.keyDrivers) = 1
    /\ result.insights.keyDrivers[1].factor = "Historical Trend (Fallback)"
    /\ Len(result.insights.riskFactors) = 1
    /\ result.insights.riskFactors[1].risk = "Data Limitation / Prediction Fallback"
    /\ result.insights.riskFactors[1].level = "High"

\* a call whose feature derivation raised on a null item of the history
C8_NullItemRaised ==
  /\ pc = "done"
  /\ raisedAt = "features"
  /\ ~forced
  /\ HasNullItem(inputData.historicalRevenue)

\* C9: for the history [1,000,000 x 6, 1,100,000] the features hold
\* baseRevenue 1,100,000 and revenueGrowth 10 (the last point against the
\* point six positions earlier); revenueGrowth is 0 whenever the history has
\* fewer than 7 points or the reference point's revenue is 0.
C9_GrowthOverSixPeriods ==
  Computed(features) =>
    LET revenue == inputData.historicalRevenue
    IN /\ revenue = SevenPointHistory =>
            features.baseRevenue = 1100000 /\ features.revenueGrowth = 1000
       /\ revenue = History(7, 400000, 1000000, 2000000) =>
            features.baseRevenue = 2000000 /\ features.revenueGrowth = 40000
       /\ Len(revenue) < 7 => features.revenueGrowth = 0
       /\ (Len(revenue) >= 7 /\ revenue[Len(revenue) - 6].revenue = 0) =>
            features.revenueGrowth = 0

\* the features of the seven-point history
C9_SevenPointFeatures ==
  /\ Computed(features)
  /\ inputData.historicalRevenue = SevenPointHistory
  /\ features.revenueGrowth = 1000

\* C10 as stated: for the smoke-test input no recommendation gate fires and
\* the recommendations returned contain the default maintenance message.
C10_MaintenanceMessageReturned ==
  (pc = "done" /\ outcome = "returned" /\ inputData = DefaultInput /\ ~forced) =>
    /\ generateRecommendations(features, inputData) = <<RecMaintain>>
    /\ \E i \in 1..Len(result.recommendations) : result.recommendations[i] = RecMaintain

\* C10, amended: for the smoke-test input the order-pipeline gate (default
\* strength 50 < 80) and the data-quality gate (score 50 < 70) fire, so
\* generateRecommendations yields the pipeline and data-quality messages
\* (with the hedging message between them when the rate in use is more than
\* 5 % off 320) and not the maintenance message; the list the call returns
\* is the fallback's single message.
C10_DefaultInputGatesFire ==
  inputData = DefaultInput =>
    /\ Computed(features) =>
         /\ features.orderPipelineStrength = [num |-> 50, den |-> 1]
         /\ features.dataQualityScore = 50
         /\ generateRecommendations(features, inputData) =
              IF Gt(features.exchangeRateImpact, 500)
                THEN <<RecPipeline, RecHedging, RecDataQuality>>
                ELSE <<RecPipeline, RecDataQuality>>
    /\ (pc = "done" /\ outcome = "returned") => result.recommendations = <<RecFallback>>

\* the smoke-test input went through every stage
C10_DefaultInputFinished ==
  /\ inputData = DefaultInput
  /\ pc = "done"
  /\ ~forced
  /\ Computed(features)
  /\ Len(generateRecommendations(features, inputData)) = 2

\* the gates of generateRecommendations in the order the code tests them
RecommendationGates(f) ==
  << [holds |-> f.buyerConcentrationRisk > 60, text |-> RecDiversify],
     [holds |-> f.operationalEfficiency < 7500, text |-> RecOperations],
     [holds |-> f.orderPipelineStrength.num < 80 * f.orderPipelineStrength.den,
      text |-> RecPipeline],
     [holds |-> Gt(f.exchangeRateImpact, 500), text |-> RecHedging],
     [holds |-> f.dataQualityScore < 70, text |-> RecDataQuality],
     [holds |-> f.companyLifecycleStage = "startup" /\ f.revenueGrowth < 1000,
      text |-> RecPenetration],
     [holds |-> f.naturalDisasterLikelihood = "high", text |-> RecContinuity] >>

\* the horizons of a predictions record as machine integers
HorizonsOf(p) ==
  [ nextMonth |-> RatInt(p.nextMonth), nextQuarter |-> RatInt(p.nextQuarter),
    nextSixMonths |-> RatInt(p.nextSixMonths), nextYear |-> RatInt(p.nextYear) ]

\* no optional field given and at least seven points, none of them null
SevenPointsNoOptionals ==
  /\ ValidInput(inputData)
  /\ Len(inputData.historicalRevenue) >= 7
  /\ \A k \in DOMAIN NoMetrics : inputData[k] = Undefined

\* C11: the recommendations of every returned result are not empty; what
\* generateRecommendations makes of the features is exactly the messages
\* whose gate holds, in the order of the gates, and it is the single
\* maintenance message if and only if no gate holds.
C11_RecommendationsFollowGates ==
  /\ (pc = "done" /\ outcome = "returned") => Len(result.recommendations) >= 1
  /\ Computed(features) =>
       LET recs == generateRecommendations(features, inputData)
           gates == RecommendationGates(features)
           fired == SelectSeq(gates, LAMBDA g : g.holds)
       IN /\ Len(recs) >= 1
          /\ (Len(fired) > 0) =>
               /\ Len(recs) = Len(fired)
               /\ \A i \in 1..Len(fired) : recs[i] = fired[i].text
          /\ (recs = <<RecMaintain>>) <=> (Len(fired) = 0)

\* features on which no gate holds
C11_NoGateHolds ==
  /\ Computed(features)
  /\ \A i \in 1..7 : ~RecommendationGates(features)[i].holds
  /\ generateRecommendations(features, inputData) = <<RecMaintain>>
  /\ pc = "done"

\* C12: with an empty historicalRevenue the call does not throw, baseRevenue
\* is 0 and nextMonth, nextQuarter, nextSixMonths and nextYear are all 0,
\* in what stage 4 produces and in the result returned.
C12_EmptyHistoryAllZero ==
  Len(inputData.historicalRevenue) = 0 =>
    LET zero == [nextMonth |-> 0, nextQuarter |-> 0, nextSixMonths |-> 0, nextYear |-> 0]
    IN /\ Computed(features) => features.baseRevenue = 0
       /\ Computed(adjustedPredictions) => HorizonsOf(adjustedPredictions) = zero
       /\ pc = "done" => outcome = "returned" /\ HorizonsOf(result.predictions) = zero

\* a call on the empty history that went through every stage
C12_EmptyHistoryFinished ==
  /\ Len(inputData.historicalRevenue) = 0
  /\ pc = "done"
  /\ ~forced
  /\ Computed(adjustedPredictions)
  /\ features.baseRevenue = 0

\* C13: for a valid input with at least 7 points and no optional field the
\* longer horizons are fixed multiples of the quarter up to rounding:
\* |nextSixMonths - 2 * nextQuarter| <= 1 and |nextYear - 4 * nextQuarter| <= 2,
\* in what stage 4 produces and in the result returned.
C13_LongHorizonsAreMultiples ==
  SevenPointsNoOptionals =>
    LET law(h) == /\ Abs(h.nextSixMonths - 2 * h.nextQuarter) <= 1
                  /\ Abs(h.nextYear - 4 * h.nextQuarter) <= 2
    IN /\ Computed(adjustedPredictions) => law(HorizonsOf(adjustedPredictions))
       /\ (pc = "done" /\ outcome = "returned") => law(HorizonsOf(result.predictions))

\* a call whose adjusted year is not four times its adjusted quarter
C13_RoundingShows ==
  /\ SevenPointsNoOptionals
  /\ pc = "done"
  /\ Computed(adjustedPredictions)
  /\ HorizonsOf(adjustedPredictions).nextYear # 4 * HorizonsOf(adjustedPredictions).nextQuarter
  /\ HorizonsOf(adjustedPredictions).nextQuarter > 0

BothDone == \A c \in CallIds : calls[c].pc = "done"

\* a payload the flow has to turn down: text that does not parse, a value
\* that is no array, an element that is null, has no string name or no
\* numeric revenue
InvalidPayload(payload) ==
  \/ payload.json \in {"malformed", "object"}
  \/ \E i \in 1..Len(payload.items) :
       \/ payload.items[i].isNull
       \/ ~payload.items[i].hasName
       \/ payload.items[i].revenue \in {Undefined, NotNumeric}

\* the horizons of a result, a NaN among them
HasNaNHorizon(r) ==
  \E h \in {"nextMonth", "nextQuarter", "nextSixMonths", "nextYear"} :
    r.predictions[h] = RatNaN

C17_OneFetchPerCall ==
  /\ fetches <= 1
  /\ pc # "idle" => fetches = 1

\* a call whose fetch was rejected, that raised in its last step and was
\* answered by the fallback
C17_RejectedFetchThenFallback ==
  /\ pc = "done"
  /\ doc.status = "error"
  /\ raisedAt = "result"
  /\ outcome = "returned"
  /\ result = basicPredictionFallback(inputData)
  /\ fetches = 1

\* C18 as stated: a call waits, while other calls run or the clock moves,
\* at the context fetch only.
C18_SuspendsOnlyAtFetch ==
  \A c \in CallIds :
    /\ calls[c].parkedAt \subseteq {"context"}
    /\ calls[c].pc \in {"idle", "context", "done"}

\* C18: a call of generateEnhancedPrediction waits at two places, the
\* context fetch and the await of runEnsemblePrediction: stages 2 and 3 run
\* as one step when the fetch settles, stages 4 and 5, the construction of
\* the result and the catch clause as a second step, and other calls and
\* clock changes can come between the two.
C18_SuspendsAtFetchAndEnsemble ==
  \A c \in CallIds :
    /\ calls[c].parkedAt \subseteq {"context", "ensemble"}
    /\ calls[c].pc \in {"idle", "context", "ensemble", "done"}
    /\ calls[c].pc = "ensemble" =>
         /\ calls[c].predictions # Nothing
         /\ calls[c].adjustedPredictions = Nothing
    /\ (calls[c].pc = "done" /\ calls[c].raisedAt = "result") =>
         /\ calls[c].adjustedPredictions # Nothing
         /\ calls[c].insights # Nothing

\* a finished call that waited after stage 3 while the other call ran and
\* the clock moved: stage 4 read a later instant than stage 3
C18_ClockMovedAfterEnsemble ==
  /\ calls["a"].pc = "done"
  /\ "ensemble" \in calls["a"].parkedAt
  /\ calls["b"].pc # "idle"
  /\ calls["a"].readAt["adjust"] > calls["a"].readAt["ensemble"]

\* C19: in every interleaving of two calls, what each call computes and
\* returns is what its own input, the fetch outcome and its own clock
\* readings give: stage values are those of the stage operators on the
\* call's own earlier values, and the result is the one the call has when it
\* runs alone.
C19_CallsAreIndependent ==
  \A c \in CallIds :
    LET call == calls[c]
    IN /\ call.externalData # Nothing => call.externalData = getExternalData(doc)
       /\ call.features # Nothing =>
            call.features = calculateEnhancedFeatures(call.inputData, getExternalData(doc),
                                                      Timeline[call.readAt["features"]])
       /\ call.predictions # Nothing =>
            call.predictions = runEnsemblePrediction(call.features,
                                                     Timeline[call.readAt["ensemble"]])
       /\ call.adjustedPredictions # Nothing =>
            call.adjustedPredictions =
              applyIndustryAdjustments(call.predictions, call.features,
                                       Timeline[call.readAt["adjust"]],
                                       Timeline[call.readAt["adjust"]])
       /\ call.insights # Nothing =>
            call.insights = generateInsights(call.adjustedPredictions, call.features,
                                             call.inputData)
       /\ call.pc = "done" =>
            /\ call.outcome = "returned"
            /\ call.result = basicPredictionFallback(call.inputData)
            /\ call.fetches = 1

\* two finished calls on different inputs, each of which waited while the
\* other ran
C19_InterleavedCalls ==
  /\ BothDone
  /\ calls["a"].inputData # calls["b"].inputData
  /\ calls["a"].parkedAt = {"context", "ensemble"}
  /\ calls["b"].parkedAt = {"context", "ensemble"}
  /\ calls["a"].features # calls["b"].features
  /\ calls["a"].result # calls["b"].result

\* C20: a call of predictRevenueFlow returns only a result whose horizons
\* are numbers and whose confidence lies in 0..100, and that result is the
\* engine's; when the engine's result has a NaN horizon the flow raises
\* "Prediction failed: An error occurred: Prediction engine returned data in
\* an unexpected format." and returns nothing; a payload turned down on
\* entry raises a different message, and a fallback result that fits the
\* schema is returned, not raised.
C20_SchemaMismatchRaises ==
  \A c \in CallIds :
    (calls[c].via = "flow" /\ calls[c].pc = "done") =>
      /\ calls[c].outcome = "returned" =>
           /\ calls[c].result = calls[c].engineResult
           /\ ~HasNaNHorizon(calls[c].result)
           /\ calls[c].result.predictions.confidence \in 0..100
      /\ (calls[c].engineOutcome = "returned" /\ HasNaNHorizon(calls[c].engineResult)) =>
           /\ calls[c].outcome = "threw"
           /\ calls[c].result = Nothing
           /\ calls[c].error.message =
                "Prediction failed: An error occurred: " \o UnexpectedFormatMessage
      /\ (calls[c].outcome = "threw" /\ calls[c].engineOutcome = "pending") =>
           calls[c].error.message #
             "Prediction failed: An error occurred: " \o UnexpectedFormatMessage
      /\ (calls[c].engineOutcome = "returned" /\ ~HasNaNHorizon(calls[c].engineResult)) =>
           /\ calls[c].outcome = "returned"
           /\ calls[c].error = NoError

\* a flow call whose payload passed validation with 1e400 at the reference
\* point, whose engine answered with the fallback and NaN horizons, and
\* which raised the format error
C20_NaNHorizonsRaised ==
  /\ calls["a"].via = "flow"
  /\ calls["a"].pc = "done"
  /\ ~InvalidPayload(calls["a"].payload)
  /\ calls["a"].fetches = 1
  /\ calls["a"].engineOutcome = "returned"
  /\ calls["a"].engineResult.predictions.nextQuarter = RatNaN
  /\ calls["a"].outcome = "threw"
  /\ calls["a"].error.message =
       "Prediction failed: An error occurred: " \o UnexpectedFormatMessage

\* C21: no step of a call of generateEnhancedPrediction changes the caller's
\* input: historicalRevenue (length, order, every item) and every other
\* field are after each step what they were before it, on the path through
\* stages 2-5 and on the path through the catch clause and the fallback.
C21_InputReadOnly == [][inputData' = inputData]_vars

\* a finished call that went through every stage and through the fallback,
\* on an array that reads differently from its end
C21_BothPathsTaken ==
  /\ pc = "done"
  /\ raisedAt = "result"
  /\ Computed(features)
  /\ Computed(insights)
  /\ outcome = "returned"
  /\ Len(inputData.historicalRevenue) = 7
  /\ inputData.historicalRevenue[1] # inputData.historicalRevenue[7]

(***************************************************************************)
(* The call on inputs that differ in top3BuyersPercentage only             *)
(***************************************************************************)
BuyerShares == {Undefined, 0, 1, 40, 41, 60, 61, 80, 81, 100}

BuyerInputs ==
  { Input(SevenPointHistory, DefaultCompany,
          [NoMetrics EXCEPT !.top3BuyersPercentage = share]) : share \in BuyerShares }

InitBuyers == InitWith(BuyerInputs, {FetchError, Found(CompleteRecord)}, {1})

SpecBuyers == InitBuyers /\ [][Next]_vars

\* C22: the buyerConcentrationRisk stage 2 computes is 90 for a
\* top3BuyersPercentage above 80, 70 above 60, 50 above 40 and 30 for every
\* other supplied value, 0 included; it is the default 50 only when the
\* field is absent.
C22_StepFunctionFromZero ==
  Computed(features) =>
    features.buyerConcentrationRisk =
      LET percentage == inputData.top3BuyersPercentage
      IN IF percentage = Undefined THEN 50
         ELSE IF percentage > 80 THEN 90
         ELSE IF percentage > 60 THEN 70
         ELSE IF percentage > 40 THEN 50
         ELSE 30

(***************************************************************************)
(* One function of the engine applied to one argument                      *)
(***************************************************************************)
Probe(subject, argument) == [subject |-> subject, argument |-> argument, answer |-> Nothing]

\* stages 2, 3 and 4 on one input, one context and one reading of the clock
StagesAt(input, context, t) ==
  LET f == calculateEnhancedFeatures(input, context, t)
      p == runEnsemblePrediction(f, t)
  IN [ features |-> f,
       predictions |-> p,
       adjustedPredictions |-> applyIndustryAdjustments(p, f, t, t) ]

StagesProbe(input, context, t) ==
  Probe("stages", [inputData |-> input, externalData |-> context, instant |-> t])

\* nothing but the probe is in use
InitProbe(probes) ==
  /\ probe \in probes
  /\ calls = <<>>
  /\ inputData = Input(SevenPointHistory, DefaultCompany, NoMetrics)
  /\ doc = FetchError
  /\ now = 1
  /\ ticks = 0
  /\ pc = "idle"
  /\ fetches = 0
  /\ externalData = Nothing
  /\ features = Nothing
  /\ predictions = Nothing
  /\ adjustedPredictions = Nothing
  /\ insights = Nothing
  /\ computedRecommendations = Nothing
  /\ raisedAt = "none"
  /\ forced = FALSE
  /\ outcome = "pending"
  /\ result = Nothing

PredictAt ==
  /\ probe.subject = "stages"
  /\ probe.answer = Nothing
  /\ probe' = [probe EXCEPT !.answer = StagesAt(probe.argument.inputData,
                                                probe.argument.externalData,
                                                probe.argument.instant)]
  /\ UNCHANGED << doc, now, ticks, calls >>
  /\ UNCHANGED callVars

NextStages == PredictAt

\* the middle of every month of a year the Ramadan table does not hold, and
\* a day of Ramadan 2024
MonthInstants == {Instant(2026, m, 15, 12) : m \in 1..12} \cup {Instant(2024, 3, 15, 12)}

\* histories of 1, 7 and MaxLen points
EnsembleHistories ==
  { History(1, 0, 0, 1100000), History(7, 400000, 1000000, 2000000),
    History(7, 1000000, 1000000, 1), History(MaxLen, 1000000, 1000000, 1100000) }

EnsembleInputs ==
  { Input(h, c, m) :
      h \in EnsembleHistories,
      c \in {DefaultCompany,
             [DefaultCompany EXCEPT !.companyLifecycleStage = "startup",
                                    !.naturalDisasterLikelihood = "high"]},
      m \in {NoMetrics, StrongMetrics, WeakMetrics} }

InitEnsemble ==
  InitProbe({ StagesProbe(i, getExternalData(d), t) :
                i \in EnsembleInputs, d \in {FetchError, Found(CompleteRecord)},
                t \in MonthInstants })

SpecEnsemble == InitEnsemble /\ [][NextStages]_vars

\* the seasonal table in hundredths, January to December
SeasonalTable == <<90, 95, 110, 115, 110, 95, 90, 90, 100, 120, 130, 110>>

\* the probe of stages 2-4 has its answer
Predicted == probe.subject = "stages" /\ probe.answer # Nothing

\* C23: the nextQuarter stage 4 hands on is round(max(0, factor *
\* baseRevenue * (0.40 * (1 + revenueGrowth / 100) + 0.35 *
\* orderPipelineStrength / 100 + 0.25 * s))), factor being the adjustment
\* factor stage 4 builds (before it is cut to four decimals for the result)
\* and s the seasonal-table entry of the month of the call, for a history of
\* fewer than 12 points as for a longer one.
C23_NextQuarterFormula ==
  Predicted =>
    LET f == probe.answer.features
        t == probe.argument.instant
        base == ToBig(f.baseRevenue)
        trend == Rat(BigMul(base, ToBig(10000 + f.revenueGrowth)), 1, 4)
        pipeline == Rat(BigMul(base, ToBig(f.orderPipelineStrength.num)),
                        f.orderPipelineStrength.den, 2)
        seasonal == Rat(BigMul(base, ToBig(SeasonalTable[t.month])), 1, 2)
        weighted == RatAdd(RatAdd(RatScale(trend, 40, 2), RatScale(pipeline, 35, 2)),
                           RatScale(seasonal, 25, 2))
    IN probe.answer.adjustedPredictions.nextQuarter =
         MathMax0(MathRound(RatMul(weighted, adjustmentFactorOf(f, t, t))))

\* a one-point history in November: the table entry 1.3 is in the projection
C23_ShortHistoryInNovember ==
  /\ Predicted
  /\ Len(probe.argument.inputData.historicalRevenue) = 1
  /\ probe.argument.instant.month = 11
  /\ probe.answer.features.seasonality = 100
  /\ probe.answer.features.baseRevenue = 1100000
  /\ Len(probe.answer.adjustedPredictions.nextQuarter.num) > 0

(***************************************************************************)
(* Stages 2-4 on inputs that switch every adjustment on and off            *)
(***************************************************************************)
AdjustmentInputs ==
  { Input(SevenPointHistory, c, m) :
      c \in Companies({10000}, {1000000, 1000001}, {110, 111}, Stages, Likelihoods),
      m \in {NoMetrics, StrongMetrics, WeakMetrics} }

\* May, June, September and October of a year outside the Ramadan table, a
\* day of Ramadan 2024 and the June after it
AdjustmentInstants ==
  { Instant(2026, 5, 31, 23), Instant(2026, 6, 1, 0), Instant(2026, 9, 30, 23),
    Instant(2026, 10, 1, 0), Instant(2024, 3, 15, 12), Instant(2024, 6, 15, 12) }

InitAdjustments ==
  InitProbe({ StagesProbe(i, getFallbackExternalData, t) :
                i \in AdjustmentInputs, t \in AdjustmentInstants })

SpecAdjustments == InitAdjustments /\ [][NextStages]_vars

\* the multipliers, in hundredths, whose condition holds
ApplicableMultipliers(f, t) ==
  {<<"trade", 103>>}
    \cup (IF t.month \in 6..9 THEN {<<"monsoon", 95>>} ELSE {})
    \cup (IF \/ t.year = 2024 /\ NotAfter(Instant(2024, 3, 10, 0), t)
                              /\ NotAfter(t, Instant(2024, 4, 9, 0))
             \/ t.year = 2025 /\ NotAfter(Instant(2025, 2, 28, 0), t)
                              /\ NotAfter(t, Instant(2025, 3, 29, 0))
            THEN {<<"ramadan", 92>>} ELSE {})
    \cup (IF f.companyLifecycleStage = "startup" THEN {<<"stage", 110>>}
          ELSE IF f.companyLifecycleStage = "decline" THEN {<<"stage", 90>>} ELSE {})
    \cup (IF f.naturalDisasterLikelihood = "high" THEN {<<"disaster", 85>>}
          ELSE IF f.naturalDisasterLikelihood = "medium" THEN {<<"disaster", 95>>} ELSE {})
    \cup (IF f.exchangeRateImpact > 1000 THEN {<<"exchange", 97>>} ELSE {})
    \cup (IF f.operationalEfficiency > 9000 THEN {<<"efficiency", 105>>}
          ELSE IF f.operationalEfficiency < 7500 THEN {<<"efficiency", 95>>} ELSE {})
    \cup (IF f.marketingSpend > 1000000 THEN {<<"marketing", 102>>} ELSE {})
    \cup (IF f.laborCostIndex > 110 THEN {<<"labor", 98>>} ELSE {})

\* their product, taken in whatever order the set is gone through
RECURSIVE ProductOf(_)
ProductOf(multipliers) ==
  IF multipliers = {} THEN RatOfInt(1)
  ELSE LET m == CHOOSE x \in multipliers : TRUE
       IN RatScale(ProductOf(multipliers \ {m}), m[2], 2)

\* C24: the adjustmentFactor of stage 4 is, to the four decimals it is
\* reported with, 1.03 times the product of exactly the multipliers whose
\* condition holds (monsoon 0.95, Ramadan 0.92, startup 1.1 or decline 0.9,
\* disaster high 0.85 or medium 0.95, exchange impact > 0.10 0.97,
\* efficiency > 90 1.05 or < 75 0.95, marketingSpend > 1,000,000 1.02,
\* laborCostIndex > 1.1 0.98), whatever the order of the multiplications;
\* nothing but these conditions enters it.
C24_FactorIsProductOfMultipliers ==
  Predicted =>
    probe.answer.adjustedPredictions.adjustmentFactor =
      ToFixed(ProductOf(ApplicableMultipliers(probe.answer.features,
                                              probe.argument.instant)), 4)

\* a start-up under a high disaster likelihood, with a weak operation and
\* a rate override of 360, marketing above 1,000,000 and labor above 1.1,
\* in June: every kind of multiplier but Ramadan applies, 0.8427 in all
C24_SevenMultipliersApply ==
  /\ Predicted
  /\ probe.argument.instant.month = 6
  /\ probe.answer.features.companyLifecycleStage = "startup"
  /\ probe.answer.features.naturalDisasterLikelihood = "high"
  /\ probe.answer.features.exchangeRateImpact > 1000
  /\ probe.answer.features.operationalEfficiency < 7500
  /\ probe.argument.inputData.marketingSpend = 1000001
  /\ probe.argument.inputData.laborCostIndex = 111
  /\ probe.answer.adjustedPredictions.adjustmentFactor = 8427

(***************************************************************************)
(* isRamadanPeriod at instants around the tabled ranges                    *)
(***************************************************************************)
AskRamadan ==
  /\ probe.subject = "ramadan"
  /\ probe.answer = Nothing
  /\ probe' = [probe EXCEPT !.answer = [value |-> isRamadanPeriod(probe.argument)]]
  /\ UNCHANGED << doc, now, ticks, calls >>
  /\ UNCHANGED callVars

NextRamadan == AskRamadan

\* the first and last day of each range, the days next to them, the start
\* and the end of the year, each at midnight, at noon and in its last hour,
\* in the tabled years and the years next to them
RamadanInstants ==
  { Instant(y, d[1], d[2], h) :
      y \in 2023..2026,
      d \in { <<1, 1>>, <<2, 27>>, <<2, 28>>, <<3, 1>>, <<3, 9>>, <<3, 10>>, <<3, 11>>,
              <<3, 28>>, <<3, 29>>, <<3, 30>>, <<4, 8>>, <<4, 9>>, <<4, 10>>, <<12, 31>> },
      h \in {0, 12, 23} }

InitRamadan == InitProbe({Probe("ramadan", t) : t \in RamadanInstants})

SpecRamadan == InitRamadan /\ [][NextRamadan]_vars

\* the day of an instant lies in m1/d1 .. m2/d2 of its year
DayWithin(t, m1, d1, m2, d2) ==
  /\ t.month > m1 \/ (t.month = m1 /\ t.day >= d1)
  /\ t.month < m2 \/ (t.month = m2 /\ t.day <= d2)

\* C25: isRamadanPeriod is true at every instant of the days 10 March 2024
\* to 9 April 2024 and 28 February 2025 to 29 March 2025, the first and the
\* last day in full, and false at every other instant, those of every other
\* year among them.
C25_WholeDaysOfTheTable ==
  (probe.subject = "ramadan" /\ probe.answer # Nothing) =>
    probe.answer.value =
      ( \/ probe.argument.year = 2024 /\ DayWithin(probe.argument, 3, 10, 4, 9)
        \/ probe.argument.year = 2025 /\ DayWithin(probe.argument, 2, 28, 3, 29) )

\* C26: the result of the fallback is a function of historicalRevenue alone:
\* its horizons are lastRevenue * (1 + growth6 / 100) times 0.33, 1, 2 and
\* 4, each rounded and held at 0 or above, with confidence 70 and factor
\* 1.0, and the whole result is the one the fallback gives for the same
\* history with every other field at a fixed value, whatever the other
\* fields of the input, the stored context and the clock.
C26_FallbackFromHistoryAlone ==
  (pc = "done" /\ outcome = "returned" /\ raisedAt # "none") =>
    LET revenue == inputData.historicalRevenue
        lastRevenue == IF Len(revenue) > 0
                         THEN Or(OptRevenue(revenue[Len(revenue)]), 0) ELSE 0
        projection == Rat(BigMul(ToBig(lastRevenue),
                                 ToBig(10000 + calculateGrowthRate(revenue, 6))), 1, 4)
    IN /\ result.predictions =
            [ nextMonth |-> MathMax0(MathRound(RatScale(projection, 33, 2))),
              nextQuarter |-> MathMax0(MathRound(projection)),
              nextSixMonths |-> MathMax0(MathRound(RatScale(projection, 2, 0))),
              nextYear |-> MathMax0(MathRound(RatScale(projection, 4, 0))),
              confidence |-> 70,
              adjustmentFactor |-> 10000 ]
       /\ result = basicPredictionFallback([DefaultInput EXCEPT !.historicalRevenue = revenue])

\* a fallback result for a start-up with every optional field, a stored
\* record and a clock that moved during the call
C26_StartupWithContext ==
  /\ pc = "done"
  /\ outcome = "returned"
  /\ inputData.companyLifecycleStage = "startup"
  /\ inputData.currentExchangeRate # Undefined
  /\ doc = Found(CompleteRecord)
  /\ ticks = 1
  /\ Len(inputData.historicalRevenue) = 7
  /\ Len(result.predictions.nextQuarter.num) > 0

\* the documented ranges of the six derived features
WithinDocumentedRanges(f) ==
  /\ f.orderPipelineStrength.num >= 0
  /\ BigCmp(ToBig(f.orderPipelineStrength.num),
            BigMulSmall(ToBig(f.orderPipelineStrength.den), 200)) <= 0
  /\ f.operationalEfficiency \in 0..10000
  /\ f.economicConditions \in 0..10000
  /\ f.overallRiskScore \in 0..10000
  /\ f.dataQualityScore \in 50..100
  /\ f.buyerConcentrationRisk \in {30, 50, 70, 90}

\* C27: for every valid input and any external context, the derived
\* features are inside their documented ranges: orderPipelineStrength in
\* [0,200], operationalEfficiency, economicConditions and overallRiskScore
\* in [0,100], dataQualityScore in [50,100], buyerConcentrationRisk one of
\* 30, 50, 70, 90.
C27_FeaturesWithinRanges ==
  (Computed(features) /\ ValidInput(inputData)) => WithinDocumentedRanges(features)

(***************************************************************************)
(* The call while the clock passes from 31 May to 1 June                   *)
(***************************************************************************)
ClockInputs ==
  { Input(h, DefaultCompany, m) :
      h \in {SevenPointHistory, History(MaxLen, 1000000, 1000000, 1100000)},
      m \in {NoMetrics, StrongMetrics, WeakMetrics} }

\* the call begins on 9 March 2024 or on 31 May 2024 at 23 h
InitClock == InitWith(ClockInputs, {FetchError, Found(CompleteRecord)}, {1, 4})

SpecClock == InitClock /\ [][Next]_vars

\* one date of every month outside Ramadan, and one of each month Ramadan
\* falls in: every combination of seasonal factor, monsoon and Ramadan that
\* one date can have
CalendarDates ==
  {Instant(2026, m, 15, 12) : m \in 1..12}
    \cup {Instant(2025, 2, 28, 12), Instant(2024, 3, 15, 12), Instant(2024, 4, 8, 12)}

\* C28: within one call the seasonal factor of the ensemble and the monsoon
\* and Ramadan checks of the adjuster are taken for the same instant: the
\* outputs of stages 3 and 4 are those of one single date, also when the
\* clock crosses a month boundary during the call.
C28_OneDatePerCall ==
  Computed(adjustedPredictions) =>
    \E t \in CalendarDates :
      /\ predictions = runEnsemblePrediction(features, t)
      /\ adjustedPredictions = applyIndustryAdjustments(predictions, features, t, t)

\* C30: when the input supplies currentExchangeRate, that override is the
\* rate both exchange features are computed from: exchangeRateImpact and
\* the exchange component of overallRiskScore measure the deviation of the
\* override, not of the fetched context rate, from the baseline 320.
C30_OverrideUsedByBothFeatures ==
  (Computed(features) /\ Truthy(inputData.currentExchangeRate)) =>
    /\ features.exchangeRateImpact =
         calculateExchangeRateImpact(inputData.currentExchangeRate)
    /\ features.overallRiskScore =
         calculateOverallRisk(inputData,
           [externalData EXCEPT !.exchangeRate = inputData.currentExchangeRate])

(***************************************************************************)
(* Stages 2-4 on inputs and contexts that differ in the fields no          *)
(* prediction is computed from                                             *)
(***************************************************************************)
IrrelevantInputs ==
  { Input(SevenPointHistory,
          [c EXCEPT !.productionCapacity = capacity],
          [m EXCEPT !.orderBacklog = backlog, !.buyerRetentionRate = retention]) :
      c \in {DefaultCompany,
             [DefaultCompany EXCEPT !.companyLifecycleStage = "startup",
                                    !.naturalDisasterLikelihood = "high"]},
      capacity \in {1, 10000, 50000},
      m \in {NoMetrics, StrongMetrics, WeakMetrics},
      backlog \in {Undefined, 200000},
      retention \in {Undefined, 40, 90} }

\* contexts that differ in the prices and the indicators, a part holding
\* strings included
IrrelevantContexts ==
  { [ exchangeRate |-> rate, rawMaterialPrices |-> prices, economicIndicators |-> indicators ] :
      rate \in {32550, 36000},
      prices \in {NoRawMaterialPrices, RawMaterialPrices(410, 360, 105),
                  RawMaterialPrices(700, 365, 110), StringRecord.rawMaterialPrices},
      indicators \in {NoEconomicIndicators, EconomicIndicators(18, 55, 42, 49),
                      EconomicIndicators(0, 200, 0, 45), StringRecord.economicIndicators} }

InitIrrelevant ==
  InitProbe({ StagesProbe(i, c, Instant(2026, 11, 5, 12)) :
                i \in IrrelevantInputs, c \in IrrelevantContexts })

SpecIrrelevant == InitIrrelevant /\ [][NextStages]_vars

\* the input and the context with the fields in question at one fixed value
WithoutBacklogRetentionCapacity(input) ==
  [input EXCEPT !.orderBacklog = Undefined, !.buyerRetentionRate = Undefined,
                !.productionCapacity = 1]

WithoutPricesAndIndicators(context) ==
  [context EXCEPT !.rawMaterialPrices = NoRawMaterialPrices,
                  !.economicIndicators = NoEconomicIndicators]

HorizonsAndFactor(p) ==
  [ nextMonth |-> p.nextMonth, nextQuarter |-> p.nextQuarter,
    nextSixMonths |-> p.nextSixMonths, nextYear |-> p.nextYear,
    adjustmentFactor |-> p.adjustmentFactor ]

\* C29: the four horizons and the adjustmentFactor do not depend on
\* rawMaterialPrices, economicIndicators, orderBacklog, buyerRetentionRate
\* or the positive value of productionCapacity: they are the ones computed
\* for the same call with these five at one fixed value, so two calls that
\* differ in these only have the same horizons and factor.
C29_UnusedFieldsDoNotMatter ==
  Predicted =>
    HorizonsAndFactor(probe.answer.adjustedPredictions) =
      HorizonsAndFactor(StagesAt(WithoutBacklogRetentionCapacity(probe.argument.inputData),
                                 WithoutPricesAndIndicators(probe.argument.externalData),
                                 probe.argument.instant).adjustedPredictions)

\* a prediction for a call with all five fields set, which do reach the
\* features (the market position is computed from the retention rate)
C29_AllFiveFieldsSet ==
  /\ Predicted
  /\ probe.argument.inputData.orderBacklog = 200000
  /\ probe.argument.inputData.buyerRetentionRate = 40
  /\ probe.argument.inputData.productionCapacity = 50000
  /\ probe.argument.externalData.rawMaterialPrices.cottonPriceLKR = 700
  /\ probe.argument.externalData.economicIndicators.inflationRate = 200
  /\ probe.answer.features.marketPosition #
       calculateMarketPosition(WithoutBacklogRetentionCapacity(probe.argument.inputData))
  /\ Len(probe.answer.adjustedPredictions.nextQuarter.num) > 0

=============================================================================
